---------------------------- MODULE Spec2Model ----------------------------
(***************************************************************************)
(* ScarMapper (pkMyt1/ScarMapper): the scar-calling engine of              *)
(* src/scarmapper/INDEL_Processing.py as a state machine.                  *)
(*                                                                         *)
(* DNA strings are sequences of one-letter strings, <<"A","C","G">>.       *)
(* Python offsets are 0-based and are kept 0-based throughout; PySlice     *)
(* is Python's s[a:b].                                                     *)
(*                                                                         *)
(* Eight specifications share the variables: SpecCutsite (the cutsite      *)
(* locator and the window map of one locus), SpecDemux (the read loop of   *)
(* the demultiplexer), SpecDemuxFair (the read loop taken to its end over  *)
(* streams of any two lengths), Spec (one library worker from              *)
(* cutsite_search to the frequency and raw data reports), SpecFrequency    *)
(* (the worker over loci with planted template motifs and a wide pool of   *)
(* Scar Calls), SpecManifest (dictionary_build over the rows of a sample   *)
(* manifest), SpecJobs (the read loop and the job list of main_loop) and   *)
(* SpecRun (main_loop: the read loop, one job per library run by a pool of *)
(* up to Spawn worker processes, data_output).                             *)
(* Sequence_Magic, SlidingWindow and FASTQ_Tools are not part of the       *)
(* source tree: rcomp and match_maker follow their documented behaviour,   *)
(* the window classifier returns one of a pool of Scar Calls or nothing.   *)
(* Left out: the phasing counters of trim_phasing, the files the           *)
(* demultiplexer writes, log lines, and report headers.                    *)
(***************************************************************************)
EXTENDS Integers, Sequences, FiniteSets, TLC

VARIABLES
    \* ---- ScarSearch (one library worker) ----
    pc,                     \* position of the worker inside data_processing
    rev,                    \* target_dict[target_name][5] == "YES"
    sgrna,                  \* target_dict[target_name][4]
    target_region,          \* self.target_region
    cutsite,                \* self.cutsite
    lower_limit,            \* self.lower_limit
    upper_limit,            \* self.upper_limit
    target_length,          \* self.target_length
    left_target_windows,    \* self.left_target_windows
    right_target_windows,   \* self.right_target_windows
    \* ---- DataProcessing (demultiplexing) ----
    dpc,                    \* position of the run inside main_loop
    Platform,               \* args.Platform
    PEAR,                   \* args.PEAR
    index_dict,             \* self.index_dict, in manifest order
    fastq1,                 \* reads not yet taken from self.fastq1
    fastq2,                 \* reads not yet taken from self.fastq2
    read_count,             \* self.read_count
    read_count_dict,        \* self.read_count_dict
    sequence_dict,          \* self.sequence_dict
    ret,                    \* what the last call of index_matching returned
    \* ---- ScarSearch.data_processing (the reads of one library) ----
    sequence_list,          \* self.sequence_list
    loop_count,             \* loop_count: the reads of sequence_list taken
    last_read,              \* what the last iteration of the loop did
    summary_data,           \* self.summary_data
    read_results_list,      \* read_results_list
    results_freq_dict,      \* results_freq_dict, in insertion order
    freq_rows,              \* the data rows of the frequency file
    raw_rows,               \* the data rows of the raw data file
    N_Limit,                \* args.N_Limit, a fraction <<num, den>>
    Minimum_Length,         \* args.Minimum_Length
    OutputRawData,          \* args.OutputRawData
    \* ---- DataProcessing (manifest, jobs and the corpus summary) ----
    sample_index_list,      \* the rows of the sample manifest
    HR_Donor,               \* args.HR_Donor is given
    data_list,              \* the library keys whose job is still to run
    index_name,             \* self.index_name of the running ScarSearch
    summary_data_list,      \* the summary_data of the finished jobs
    summary_rows,           \* the data rows of the summary file
    Spawn,                  \* args.Spawn, the worker processes of the pool
    pool                    \* per job of data_list: where its process is

cutVars == <<rev, sgrna, target_region, cutsite, lower_limit, upper_limit,
             target_length, left_target_windows, right_target_windows>>

demuxVars == <<dpc, Platform, PEAR, index_dict, fastq1, fastq2, read_count,
               read_count_dict, sequence_dict, ret>>

readVars == <<sequence_list, loop_count, last_read, summary_data,
              read_results_list, results_freq_dict, freq_rows, raw_rows,
              N_Limit, Minimum_Length, OutputRawData>>

runVars == <<sample_index_list, HR_Donor, data_list, index_name,
             summary_data_list, summary_rows, Spawn, pool>>

vars == <<pc, cutVars, demuxVars, readVars, runVars>>

-----------------------------------------------------------------------------
(* Python values and string primitives                                     *)

\* Python's None
None == "None"

Min(a, b) == IF a < b THEN a ELSE b

Max(a, b) == IF a > b THEN a ELSE b

\* Python's s[a:b] for integers a, b (negative offsets count from the end,
\* offsets beyond the ends are clamped, an empty range gives "").
PySlice(s, a, b) ==
    LET n  == Len(s)
        lo == IF a < 0 THEN Max(a + n, 0) ELSE Min(a, n)
        hi == IF b < 0 THEN Max(b + n, 0) ELSE Min(b, n)
    IN  IF lo >= hi THEN <<>> ELSE SubSeq(s, lo + 1, hi)

\* n copies of base b
Rep(b, n) == [i \in 1..n |-> b]

\* Sequence_Magic.rcomp: complement of one base; N and any other character
\* pass through unchanged.
Complement(b) ==
    CASE b = "A" -> "T"
      [] b = "T" -> "A"
      [] b = "C" -> "G"
      [] b = "G" -> "C"
      [] OTHER   -> b

\* Sequence_Magic.rcomp: reverse complement of a DNA string.
rcomp(s) == [i \in 1..Len(s) |-> Complement(s[Len(s) + 1 - i])]

-----------------------------------------------------------------------------
(* ScarSearch.cutsite_search                                               *)

\* The while loop of cutsite_search from (lft_position, rt_position): the
\* result is [found, cutsite].
RECURSIVE cutsite_loop(_, _, _, _, _, _)
cutsite_loop(region, working_sgrna, rcomp_sgrna, lft_position, rt_position, limit) ==
    IF ~(rt_position < limit)
    THEN [found |-> FALSE, cutsite |-> None]
    ELSE IF PySlice(region, lft_position, rt_position) = working_sgrna
         THEN [found |-> TRUE,
               cutsite |-> IF rcomp_sgrna THEN lft_position + 3 ELSE rt_position - 3]
         ELSE cutsite_loop(region, working_sgrna, rcomp_sgrna,
                           lft_position + 1, rt_position + 1, limit)

\* The guide as it is searched for: reverse-complemented for a 3' strand locus.
working_sgrna(guide, is_rev) == IF is_rev THEN rcomp(guide) ELSE guide

\* Mutant: the strand offsets exchanged (lft_position+3 on the forward strand).
cutsite_search_swapped(region, guide, is_rev) ==
    cutsite_loop(region, working_sgrna(guide, is_rev), ~is_rev,
                 0, Len(guide), Len(region) - 1)

\* Mutant: the loop does not stop at the first occurrence, the last one wins.
RECURSIVE cutsite_loop_last(_, _, _, _, _, _, _)
cutsite_loop_last(region, working, rcomp_sgrna, lft_position, rt_position, limit, acc) ==
    IF ~(rt_position < limit)
    THEN acc
    ELSE cutsite_loop_last(region, working, rcomp_sgrna,
                           lft_position + 1, rt_position + 1, limit,
                           IF PySlice(region, lft_position, rt_position) = working
                           THEN [found |-> TRUE,
                                 cutsite |-> IF rcomp_sgrna THEN lft_position + 3
                                                            ELSE rt_position - 3]
                           ELSE acc)

cutsite_search_last(region, guide, is_rev) ==
    cutsite_loop_last(region, working_sgrna(guide, is_rev), is_rev,
                      0, Len(guide), Len(region) - 1,
                      [found |-> FALSE, cutsite |-> None])

cutsite_search(region, guide, is_rev) ==
    cutsite_loop(region, working_sgrna(guide, is_rev), is_rev,
                 0, Len(guide), Len(region) - 1)

\* data_processing, line 172: locate the cutsite or abort the run.
CutsiteSearch ==
    /\ pc = "cutsite_search"
    /\ LET r == cutsite_search(target_region, sgrna, rev)
       IN  IF r.found
           THEN /\ cutsite' = r.cutsite
                /\ pc' = "window_mapping"
           ELSE /\ cutsite' = cutsite
                /\ pc' = "SystemExit"
    /\ UNCHANGED <<rev, sgrna, target_region, lower_limit, upper_limit,
                   target_length, left_target_windows, right_target_windows>>
    /\ UNCHANGED <<demuxVars, readVars, runVars>>

-----------------------------------------------------------------------------
(* ScarSearch.window_mapping                                               *)

\* Mutant: the left loop also takes the window that ends at the lower limit.
RECURSIVE left_windows_to_limit(_, _, _, _)
left_windows_to_limit(region, lft_position, rt_position, lower) ==
    IF rt_position >= lower
    THEN <<PySlice(region, lft_position, rt_position)>>
         \o left_windows_to_limit(region, lft_position - 1, rt_position - 1, lower)
    ELSE <<>>

RECURSIVE left_windows(_, _, _, _)
left_windows(region, lft_position, rt_position, lower) ==
    IF rt_position > lower
    THEN <<PySlice(region, lft_position, rt_position)>>
         \o left_windows(region, lft_position - 1, rt_position - 1, lower)
    ELSE <<>>

RECURSIVE right_windows(_, _, _, _)
right_windows(region, lft_position, rt_position, upper) ==
    IF lft_position < upper
    THEN <<PySlice(region, lft_position, rt_position)>>
         \o right_windows(region, lft_position + 1, rt_position + 1, upper)
    ELSE <<>>

WindowMapping ==
    /\ pc = "window_mapping"
    /\ target_length' = Len(target_region)
    /\ lower_limit' = 15
    /\ upper_limit' = Len(target_region) - 15
    /\ left_target_windows' =
           left_target_windows
           \o left_windows(target_region, cutsite - 10, cutsite, 15)
    /\ right_target_windows' =
           right_target_windows
           \o right_windows(target_region, cutsite, cutsite + 10,
                            Len(target_region) - 15)
    /\ pc' = "reads"
    /\ UNCHANGED <<rev, sgrna, target_region, cutsite>>
    /\ UNCHANGED <<demuxVars, readVars, runVars>>

-----------------------------------------------------------------------------
(* Sequence_Magic.match_maker                                              *)

\* Position-wise count of the differing bases over the overlapping length.
match_maker(query, unknown) ==
    Cardinality({i \in 1..Min(Len(query), Len(unknown)) : query[i] # unknown[i]})

-----------------------------------------------------------------------------
(* DataProcessing.index_matching                                           *)

\* A dictionary of counters: a function from its keys; a key that is not
\* there yet counts as absent.
Get(d, k) == IF k \in DOMAIN d THEN d[k] ELSE 0

\* if key not in d: d[key] = 0
Touch(d, k) == IF k \in DOMAIN d THEN d ELSE (k :> 0) @@ d

\* d[key] += 1 for a key that is there
Incr(d, k) == [d EXCEPT ![k] = @ + 1]

\* fastq2_read=None, the default of index_matching: an optional read is a
\* sequence of no read or of one.
NoRead == <<>>

\* mismatch = 1, or 3 on the Ramsden platform
mismatch == IF Platform = "Ramsden" THEN 3 ELSE 1

\* right_match of one index record for a read, lines 1033 and 1043-1044
right_match(rec, read1) ==
    IF Platform = "Illumina"
    THEN match_maker(rec.idx2, read1.h1)
    ELSE match_maker(rec.idx2, PySlice(read1.seq, 0, Len(rec.idx2)))

\* left_match of one index record for a read, lines 1034 and 1037-1042
left_match(rec, read1, read2) ==
    IF Platform = "Illumina"
    THEN match_maker(rec.idx0, read1.h2)
    ELSE IF PEAR
         THEN match_maker(rec.idx0,
                          PySlice(read1.seq, -Len(rec.idx0), Len(read1.seq)))
         ELSE match_maker(rcomp(rec.idx0),
                          PySlice(read2[1].seq, 0, Len(rec.idx0)))

\* What index_matching hands back when index i matched: without a second
\* read the first read whole, with one both reads less their last 5 nt.
Matched(rec, read1, read2, counts) ==
    [raised      |-> FALSE,
     match_found |-> TRUE,
     left_seq    |-> IF read2 = NoRead THEN <<>> ELSE PySlice(read2[1].seq, 0, -5),
     right_seq   |-> IF read2 = NoRead THEN read1.seq ELSE PySlice(read1.seq, 0, -5),
     index_key   |-> rec.name,
     counts      |-> counts]

\* The for loop of index_matching from index i on; index_key is the loop
\* variable as the previous iteration left it.
RECURSIVE index_loop(_, _, _, _, _)
index_loop(i, index_key, read1, read2, counts) ==
    IF i > Len(index_dict)
    THEN [raised |-> FALSE, match_found |-> FALSE, left_seq |-> <<>>,
          right_seq |-> <<>>, index_key |-> index_key, counts |-> counts]
    ELSE LET rec     == index_dict[i]
             touched == Touch(counts, rec.name)
         IN  IF Platform \notin {"Illumina", "Ramsden"}
             THEN \* left_match is unbound at line 1049: UnboundLocalError
                  [raised |-> TRUE, match_found |-> FALSE, left_seq |-> <<>>,
                   right_seq |-> <<>>, index_key |-> rec.name, counts |-> touched]
             ELSE IF /\ left_match(rec, read1, read2) <= mismatch
                     /\ right_match(rec, read1) <= mismatch
                  THEN Matched(rec, read1, read2, Incr(touched, rec.name))
                  ELSE index_loop(i + 1, rec.name, read1, read2, touched)

\* Lines 1063-1066.
count_unidentified(r) ==
    IF r.match_found \/ r.raised
    THEN r
    ELSE [r EXCEPT !.counts = Incr(Touch(r.counts, "unidentified"), "unidentified")]

\* Mutant: no break after a match, every index within the threshold is
\* counted and the last one is returned.
RECURSIVE index_loop_nobreak(_, _, _, _, _)
index_loop_nobreak(i, acc, read1, read2, counts) ==
    IF i > Len(index_dict)
    THEN [acc EXCEPT !.counts = counts]
    ELSE LET rec     == index_dict[i]
             touched == Touch(counts, rec.name)
         IN  IF Platform \notin {"Illumina", "Ramsden"}
             THEN [raised |-> TRUE, match_found |-> FALSE, left_seq |-> <<>>,
                   right_seq |-> <<>>, index_key |-> rec.name, counts |-> touched]
             ELSE IF /\ left_match(rec, read1, read2) <= mismatch
                     /\ right_match(rec, read1) <= mismatch
                  THEN index_loop_nobreak(i + 1,
                           Matched(rec, read1, read2, counts), read1, read2,
                           Incr(touched, rec.name))
                  ELSE index_loop_nobreak(i + 1,
                           [acc EXCEPT !.index_key =
                               IF acc.match_found THEN @ ELSE rec.name],
                           read1, read2, touched)

index_matching_nobreak(read1, read2, counts) ==
    count_unidentified(
        index_loop_nobreak(1,
            [raised |-> FALSE, match_found |-> FALSE, left_seq |-> <<>>,
             right_seq |-> <<>>, index_key |-> "unidentified", counts |-> counts],
            read1, read2, counts))

\* Mutant: best match, the index with the fewest mismatches is taken.
index_matching_best(read1, read2, counts) ==
    LET within == {i \in 1..Len(index_dict) :
                      /\ left_match(index_dict[i], read1, read2) <= mismatch
                      /\ right_match(index_dict[i], read1) <= mismatch}
        score(i) == left_match(index_dict[i], read1, read2)
                    + right_match(index_dict[i], read1)
        all == [n \in {index_dict[i].name : i \in 1..Len(index_dict)} |->
                   Get(counts, n)]
    IN  IF within = {}
        THEN count_unidentified(
                 [raised |-> FALSE, match_found |-> FALSE, left_seq |-> <<>>,
                  right_seq |-> <<>>, index_key |-> "unidentified",
                  counts |-> all @@ counts])
        ELSE LET b == CHOOSE i \in within :
                          \A j \in within :
                              score(i) < score(j) \/ (score(i) = score(j) /\ i <= j)
             IN  Matched(index_dict[b], read1, read2,
                         Incr(all @@ counts, index_dict[b].name))

\* index_matching(fastq1_read, fastq2_read): the returned tuple and the
\* read_count_dict it leaves.
index_matching(read1, read2, counts) ==
    count_unidentified(index_loop(1, "unidentified", read1, read2, counts))

-----------------------------------------------------------------------------
(* DataProcessing.demultiplex and consensus_demultiplex                    *)

\* self.sequence_dict[index_name].append(item), a defaultdict(list): the
\* dictionary is the sequence of its [key, items] in the order the keys
\* were first stored, the order in which Python iterates it.
Append_to(d, k, item) ==
    IF \E i \in 1..Len(d) : d[i].key = k
    THEN [i \in 1..Len(d) |->
             IF d[i].key = k THEN [d[i] EXCEPT !.items = Append(@, item)] ELSE d[i]]
    ELSE Append(d, [key |-> k, items |-> <<item>>])

\* The target name of an index, self.index_dict[index_name][7]
Locus(name) ==
    LET i == CHOOSE j \in 1..Len(index_dict) : index_dict[j].name = name
    IN  index_dict[i].target

\* What demultiplex stores for a matched read pair, lines 804-836.
paired_item(r) ==
    IF Platform = "Illumina"
    THEN IF Locus(r.index_key) = "AAVS1.1"
         THEN <<r.left_seq, r.right_seq>>
         ELSE <<r.right_seq, r.left_seq>>
    ELSE <<r.left_seq, r.right_seq>>

\* What consensus_demultiplex stores for a matched read, lines 680-714.
consensus_item(read1) ==
    IF Platform = "Illumina" THEN read1.seq ELSE rcomp(read1.seq)

\* What the loop stores for a matched read: the merged read when there is
\* no second read (consensus_demultiplex), the pair otherwise (demultiplex).
stored_item(r, read1, read2) ==
    IF read2 = NoRead THEN consensus_item(read1) ELSE paired_item(r)

\* The part of one loop iteration after the reads were taken: count the
\* read, match it, store it.
DemuxRead(read1, read2) ==
    LET r == index_matching(read1, read2, read_count_dict)
    IN  /\ read_count' = read_count + 1
        /\ read_count_dict' = r.counts
        /\ ret' = [raised |-> r.raised, match_found |-> r.match_found,
                   left_seq |-> r.left_seq, right_seq |-> r.right_seq,
                   index_key |-> r.index_key, read1 |-> read1, read2 |-> read2]
        /\ IF r.raised
           THEN /\ dpc' = "UnboundLocalError"
                /\ UNCHANGED sequence_dict
           ELSE IF r.match_found
                THEN IF Platform \in {"Illumina", "Ramsden"}
                     THEN /\ sequence_dict' = Append_to(sequence_dict, r.index_key,
                                                      stored_item(r, read1, read2))
                          /\ dpc' = dpc
                     ELSE /\ dpc' = "SystemExit"
                          /\ UNCHANGED sequence_dict
                ELSE /\ dpc' = dpc
                     /\ UNCHANGED sequence_dict

\* Mutant: a first read whose mate is missing is counted as a read pair.
Demultiplex_counts_unpaired ==
    /\ dpc = "demultiplex"
    /\ ~PEAR
    /\ IF fastq1 = <<>>
       THEN /\ dpc' = "eof"
            /\ UNCHANGED <<fastq1, fastq2, read_count, read_count_dict,
                           sequence_dict, ret>>
       ELSE IF fastq2 = <<>>
            THEN /\ fastq1' = Tail(fastq1)
                 /\ dpc' = "eof"
                 /\ read_count' = read_count + 1
                 /\ UNCHANGED <<fastq2, read_count_dict, sequence_dict, ret>>
            ELSE /\ fastq1' = Tail(fastq1)
                 /\ fastq2' = Tail(fastq2)
                 /\ DemuxRead(Head(fastq1), <<Head(fastq2)>>)
    /\ UNCHANGED <<Platform, PEAR, index_dict>>
    /\ UNCHANGED <<pc, cutVars, readVars, runVars>>

\* One iteration of the while loop of demultiplex (paired reads).
Demultiplex ==
    /\ dpc = "demultiplex"
    /\ ~PEAR
    /\ IF fastq1 = <<>>
       THEN \* StopIteration from fastq1
            /\ dpc' = "eof"
            /\ UNCHANGED <<fastq1, fastq2, read_count, read_count_dict,
                           sequence_dict, ret>>
       ELSE IF fastq2 = <<>>
            THEN \* fastq1 gave a read, StopIteration from fastq2
                 /\ fastq1' = Tail(fastq1)
                 /\ dpc' = "eof"
                 /\ UNCHANGED <<fastq2, read_count, read_count_dict,
                                sequence_dict, ret>>
            ELSE /\ fastq1' = Tail(fastq1)
                 /\ fastq2' = Tail(fastq2)
                 /\ DemuxRead(Head(fastq1), <<Head(fastq2)>>)
    /\ UNCHANGED <<Platform, PEAR, index_dict>>
    /\ UNCHANGED <<pc, cutVars, readVars, runVars>>

\* One iteration of the while loop of consensus_demultiplex (merged reads).
ConsensusDemultiplex ==
    /\ dpc = "demultiplex"
    /\ PEAR
    /\ IF fastq1 = <<>>
       THEN /\ dpc' = "eof"
            /\ UNCHANGED <<fastq1, read_count, read_count_dict,
                           sequence_dict, ret>>
       ELSE /\ fastq1' = Tail(fastq1)
            /\ DemuxRead(Head(fastq1), NoRead)
    /\ UNCHANGED <<Platform, PEAR, index_dict, fastq2>>
    /\ UNCHANGED <<pc, cutVars, readVars, runVars>>

-----------------------------------------------------------------------------
(* ScarSearch.simple_consensus                                             *)

\* The inner while loop: the first rt_position < right_limit at which the
\* window of rt_seq equals left_block.
RECURSIVE overlap_scan(_, _, _, _, _)
overlap_scan(left_block, rt_seq, lft_position, rt_position, right_limit) ==
    IF ~(rt_position < right_limit)
    THEN [found |-> FALSE, rt_position |-> rt_position]
    ELSE IF left_block = PySlice(rt_seq, lft_position, rt_position)
         THEN [found |-> TRUE, rt_position |-> rt_position]
         ELSE overlap_scan(left_block, rt_seq, lft_position + 1,
                           rt_position + 1, right_limit)

\* The outer while loop, the 7-nt window of left_seq moving left while its
\* start is > 25.
RECURSIVE consensus_scan(_, _, _, _, _)
consensus_scan(left_seq, rt_seq, left_position, right_position, right_limit) ==
    IF ~(left_position > 25)
    THEN <<>>
    ELSE LET m == overlap_scan(PySlice(left_seq, left_position, right_position),
                               rt_seq, 0, 7, right_limit)
         IN  IF m.found
             THEN left_seq \o PySlice(rt_seq, m.rt_position, Len(rt_seq))
             ELSE consensus_scan(left_seq, rt_seq, left_position - 1,
                                 right_position - 1, right_limit)

\* Mutant: the search bound of the left read dropped (left_position > 0).
RECURSIVE consensus_scan_unbounded(_, _, _, _, _)
consensus_scan_unbounded(left_seq, rt_seq, left_position, right_position, right_limit) ==
    IF ~(left_position > 0)
    THEN <<>>
    ELSE LET m == overlap_scan(PySlice(left_seq, left_position, right_position),
                               rt_seq, 0, 7, right_limit)
         IN  IF m.found
             THEN left_seq \o PySlice(rt_seq, m.rt_position, Len(rt_seq))
             ELSE consensus_scan_unbounded(left_seq, rt_seq, left_position - 1,
                                           right_position - 1, right_limit)

simple_consensus_unbounded(left_seq, right_seq) ==
    consensus_scan_unbounded(left_seq, rcomp(right_seq), Len(left_seq) - 7,
                             Len(left_seq), Len(right_seq) - 25)

simple_consensus(left_seq, right_seq) ==
    consensus_scan(left_seq, rcomp(right_seq), Len(left_seq) - 7,
                   Len(left_seq), Len(right_seq) - 25)

-----------------------------------------------------------------------------
(* SlidingWindow.sliding_window: the window classifier                     *)

\* The number of N in a string, consensus_seq.count("N")
CountN(s) == Cardinality({i \in 1..Len(s) : s[i] = "N"})

\* A Scar Call, the sub_list of one classified read: [0] left deletion,
\* [1] right deletion, [2] insertion, [3] microhomology, [4] consensus,
\* [5], [6] consensus junctions, [7], [8] reference junctions, [9] tag.
\* The call of a read that lost ld nt left of the cutsite and rd nt right of
\* it, with mhs nt of microhomology, and gained ins.
ScarCall(ld, rd, mhs, ins, tag, consensus) ==
    [lft_del   |-> PySlice(target_region, cutsite - ld, cutsite),
     rt_del    |-> PySlice(target_region, cutsite, cutsite + rd),
     insertion |-> ins,
     mh        |-> PySlice(target_region, cutsite - ld - mhs, cutsite - ld),
     consensus |-> consensus,
     con_lft   |-> cutsite - ld - mhs,
     con_rt    |-> cutsite - ld - mhs + Len(ins),
     ref_lft   |-> cutsite - ld - mhs,
     ref_rt    |-> cutsite + rd,
     tag       |-> tag]

\* The summary counters the classifier adds to for a call: reads with left,
\* right, insertion and microhomology evidence, and the HR junction counts.
count_call(sd, c) ==
    [sd EXCEPT !.s2 = @ + (IF c.lft_del # <<>> THEN 1 ELSE 0),
               !.s3 = @ + (IF c.rt_del # <<>> THEN 1 ELSE 0),
               !.s4 = @ + (IF c.insertion # <<>> THEN 1 ELSE 0),
               !.s5 = @ + (IF c.mh # <<>> THEN 1 ELSE 0),
               !.s10 = IF c.tag = "HR" THEN <<@[1] + 1, @[2] + 1>> ELSE @]

\* Mutant: the classifier also makes a call, empty in all four fields, for
\* a read without a deletion and an insertion.
sliding_window_unedited_call(consensus_seq, sd, shapes) ==
    {[sub_list |-> <<>>, summary_data |-> [sd EXCEPT !.s6 = <<@[1] + 1, @[2]>>]],
     [sub_list |-> <<>>, summary_data |-> [sd EXCEPT !.s6 = <<@[1], @[2] + 1>>]]}
    \cup
    {[sub_list |-> <<ScarCall(sh[1], sh[2], sh[3], sh[4], sh[5], consensus_seq)>>,
      summary_data |-> count_call(sd,
          ScarCall(sh[1], sh[2], sh[3], sh[4], sh[5], consensus_seq))] :
     sh \in shapes \cup {<<0, 0, 0, <<>>, "">>}}

\* What sliding_window may return for a consensus: (sub_list, summary_data).
\* No junction and no cut evidence give the empty sub_list and count in
\* summary_data[6]; a call is a sequence of one Scar Call.
sliding_window(consensus_seq, sd, shapes) ==
    {[sub_list |-> <<>>, summary_data |-> [sd EXCEPT !.s6 = <<@[1] + 1, @[2]>>]],
     [sub_list |-> <<>>, summary_data |-> [sd EXCEPT !.s6 = <<@[1], @[2] + 1>>]]}
    \cup
    {[sub_list |-> <<ScarCall(sh[1], sh[2], sh[3], sh[4], sh[5], consensus_seq)>>,
      summary_data |-> count_call(sd,
          ScarCall(sh[1], sh[2], sh[3], sh[4], sh[5], consensus_seq))] :
     sh \in shapes}

-----------------------------------------------------------------------------
(* ScarSearch.data_processing: the loop over the reads of the library      *)

\* freq_key = "{}|{}|{}|{}|{}".format(sub_list[0], sub_list[1], sub_list[2],
\* sub_list[3], sub_list[9]): the fields joined by "|".
freq_key_of(c) ==
    c.lft_del \o <<"|">> \o c.rt_del \o <<"|">> \o c.insertion \o <<"|">>
    \o c.mh \o <<"|">> \o <<c.tag>>

\* The position of a key in the frequency table, 0 when it is not there.
KeyIndex(d, key) ==
    IF \E i \in 1..Len(d) : d[i].key = key
    THEN CHOOSE i \in 1..Len(d) : d[i].key = key
    ELSE 0

\* Mutant: every call makes a new entry.
fold_always_new(d, c) ==
    Append(d, [key |-> freq_key_of(c), count |-> 1, sub |-> c])

\* Lines 253-256: results_freq_dict[freq_key][0] += 1, or a new entry
\* [1, sub_list] after the entries there are.
fold(d, c) ==
    LET key == freq_key_of(c)
        i   == KeyIndex(d, key)
    IN  IF i # 0
        THEN [d EXCEPT ![i].count = @ + 1]
        ELSE Append(d, [key |-> key, count |-> 1, sub |-> c])

\* Lines 201-214: the filter a consensus falls to, "" when it passes.
\* N_Limit is the fraction N_Limit[1] / N_Limit[2].
read_filter(consensus_seq) ==
    IF consensus_seq = <<>> THEN "consensus"
    ELSE IF CountN(consensus_seq) * N_Limit[2] > N_Limit[1] * Len(consensus_seq)
         THEN "N"
    ELSE IF Len(consensus_seq) <= Minimum_Length THEN "short"
    ELSE ""

\* The consensus of one element of sequence_list, lines 188-199.
consensus_of(seq) ==
    IF ~PEAR THEN simple_consensus(seq[1], seq[2]) ELSE seq

\* Mutant: a read filtered for N or length is counted as passing as well.
ProcessSeq_counts_filtered(seq, shapes) ==
    LET consensus_seq == consensus_of(seq)
        filter        == read_filter(consensus_seq)
        note(called)  == [seq |-> seq, consensus |-> consensus_seq,
                          filter |-> filter, classified |-> called]
    IN  /\ loop_count' = loop_count + 1
        /\ IF filter = "consensus"
           THEN /\ summary_data' = [summary_data EXCEPT !.s7 = <<@[1], @[2] + 1>>]
                /\ last_read' = note(FALSE)
                /\ UNCHANGED <<read_results_list, results_freq_dict>>
           ELSE IF filter \in {"N", "short"}
           THEN /\ summary_data' = [summary_data EXCEPT !.s7 = <<@[1] + 1, @[2]>>,
                                                        !.s1 = @ + 1]
                /\ last_read' = note(FALSE)
                /\ UNCHANGED <<read_results_list, results_freq_dict>>
           ELSE \E out \in sliding_window(consensus_seq,
                               [summary_data EXCEPT !.s1 = @ + 1], shapes) :
                   /\ summary_data' = out.summary_data
                   /\ last_read' = note(TRUE)
                   /\ IF out.sub_list # <<>>
                      THEN /\ read_results_list' =
                                  Append(read_results_list, out.sub_list[1])
                           /\ results_freq_dict' =
                                  fold(results_freq_dict, out.sub_list[1])
                      ELSE UNCHANGED <<read_results_list, results_freq_dict>>

\* One iteration of the for loop over sequence_list for the element seq;
\* last_read records the element, its consensus, the filter it fell to and
\* whether sliding_window was called for it.
ProcessSeq(seq, shapes) ==
    LET consensus_seq == consensus_of(seq)
        filter        == read_filter(consensus_seq)
        note(called)  == [seq |-> seq, consensus |-> consensus_seq,
                          filter |-> filter, classified |-> called]
    IN  /\ loop_count' = loop_count + 1
        /\ IF filter = "consensus"
           THEN /\ summary_data' = [summary_data EXCEPT !.s7 = <<@[1], @[2] + 1>>]
                /\ last_read' = note(FALSE)
                /\ UNCHANGED <<read_results_list, results_freq_dict>>
           ELSE IF filter \in {"N", "short"}
           THEN /\ summary_data' = [summary_data EXCEPT !.s7 = <<@[1] + 1, @[2]>>]
                /\ last_read' = note(FALSE)
                /\ UNCHANGED <<read_results_list, results_freq_dict>>
           ELSE \E out \in sliding_window(consensus_seq,
                               [summary_data EXCEPT !.s1 = @ + 1], shapes) :
                   /\ summary_data' = out.summary_data
                   /\ last_read' = note(TRUE)
                   /\ IF out.sub_list # <<>>
                      THEN /\ read_results_list' =
                                  Append(read_results_list, out.sub_list[1])
                           /\ results_freq_dict' =
                                  fold(results_freq_dict, out.sub_list[1])
                      ELSE UNCHANGED <<read_results_list, results_freq_dict>>

\* The window classifier may return any of these for a read; a read without
\* a deletion and an insertion is a no-junction read and gets no call.  A
\* Scar Call is
\* <<left deletion length, right deletion length, microhomology length,
\* insertion, tag>>.
Ins1 == <<"G">>

Ins5 == <<"C","G","A","A","T">>

Shapes ==
    {<<2, 1, 3, <<>>, "">>,
     <<2, 1, 3, Ins5, "">>,
     <<1, 0, 2, <<>>, "">>,
     <<1, 1, 0, Ins1, "">>,
     <<3, 2, 1, <<>>, "">>,
     <<0, 1, 0, Ins5, "">>,
     <<4, 0, 0, Ins5, "">>,
     <<2, 1, 3, <<>>, "HR">>}

\* data_processing, lines 179-256: one iteration of the for loop.
ProcessRead ==
    /\ pc = "reads"
    /\ loop_count < Len(sequence_list)
    /\ ProcessSeq(sequence_list[loop_count + 1], Shapes)
    /\ UNCHANGED <<pc, sequence_list, freq_rows, raw_rows, N_Limit,
                   Minimum_Length, OutputRawData>>
    /\ UNCHANGED <<cutVars, demuxVars, runVars>>

-----------------------------------------------------------------------------
(* ScarSearch.templated_insertion_search                                   *)

\* The left while loop: the first 5-nt window, its right edge moving left
\* from the junction while > lower, that equals a left query.
RECURSIVE left_template_scan(_, _, _, _, _)
left_template_scan(lft_position, rt_position, lower, query1, query2) ==
    IF ~(rt_position > lower)
    THEN <<>>
    ELSE LET target_segment == PySlice(target_region, lft_position, rt_position)
         IN  IF query1 = target_segment \/ query2 = target_segment
             THEN IF rev THEN rcomp(target_segment) ELSE target_segment
             ELSE left_template_scan(lft_position - 1, rt_position - 1, lower,
                                     query1, query2)

\* The right while loop: the first 5-nt window, its left edge moving right
\* from the junction while < upper, that equals a right query.
RECURSIVE right_template_scan(_, _, _, _, _)
right_template_scan(lft_position, rt_position, upper, query1, query2) ==
    IF ~(lft_position < upper)
    THEN <<>>
    ELSE LET target_segment == PySlice(target_region, lft_position, rt_position)
         IN  IF query1 = target_segment \/ query2 = target_segment
             THEN IF rev THEN rcomp(target_segment) ELSE target_segment
             ELSE right_template_scan(lft_position + 1, rt_position + 1, upper,
                                      query1, query2)

\* Mutant: both searches ask for the first and the last 5 nt as they are.
templated_insertion_search_same_strand(insertion, lft_target_junction, rt_target_junction) ==
    LET first5 == PySlice(insertion, 0, 5)
        last5  == PySlice(insertion, -5, Len(insertion))
    IN  <<left_template_scan(lft_target_junction - 5, lft_target_junction,
                             lft_target_junction - 50, first5, last5),
          right_template_scan(rt_target_junction, rt_target_junction + 5,
                              rt_target_junction + 50, first5, last5)>>

\* (lft_template, rt_template)
templated_insertion_search(insertion, lft_target_junction, rt_target_junction) ==
    LET first5 == PySlice(insertion, 0, 5)
        last5  == PySlice(insertion, -5, Len(insertion))
    IN  <<left_template_scan(lft_target_junction - 5, lft_target_junction,
                             lft_target_junction - 50, rcomp(first5), last5),
          right_template_scan(rt_target_junction, rt_target_junction + 5,
                              rt_target_junction + 50, first5, rcomp(last5))>>

-----------------------------------------------------------------------------
(* ScarSearch.frequency_output and raw_data_output                         *)

\* Mutant: the TsEJ test also asks for a short insertion.
scar_type_short_ins(tag, del_size, microhomology_size, ins_size) ==
    IF tag = "HR" THEN "HR"
    ELSE IF del_size >= 4 /\ microhomology_size >= 2 /\ ins_size < 5 THEN "TsEJ"
    ELSE IF del_size < 4 /\ ins_size < 5 THEN "NHEJ"
    ELSE IF del_size >= 4 /\ microhomology_size < 2 /\ ins_size < 5
         THEN "Non-MH Deletion"
    ELSE IF ins_size >= 5 THEN "Insertion"
    ELSE "Other"

\* Mutant: only an insertion of more than 5 nt is an Insertion.
scar_type_long_ins(tag, del_size, microhomology_size, ins_size) ==
    IF tag = "HR" THEN "HR"
    ELSE IF del_size >= 4 /\ microhomology_size >= 2 THEN "TsEJ"
    ELSE IF del_size < 4 /\ ins_size < 5 THEN "NHEJ"
    ELSE IF del_size >= 4 /\ microhomology_size < 2 /\ ins_size < 5
         THEN "Non-MH Deletion"
    ELSE IF ins_size > 5 THEN "Insertion"
    ELSE "Other"

\* Lines 350-378: the if/elif chain that labels one frequency-table entry.
scar_type(tag, del_size, microhomology_size, ins_size) ==
    IF tag = "HR" THEN "HR"
    ELSE IF del_size >= 4 /\ microhomology_size >= 2 THEN "TsEJ"
    ELSE IF del_size < 4 /\ ins_size < 5 THEN "NHEJ"
    ELSE IF del_size >= 4 /\ microhomology_size < 2 /\ ins_size < 5
         THEN "Non-MH Deletion"
    ELSE IF ins_size >= 5 THEN "Insertion"
    ELSE "Other"

\* The slot of junction_type_data a label adds to (1-based: slot 1 is
\* junction_type_data[0]), 0 for HR, which adds to none.
junction_slot(label) ==
    CASE label = "TsEJ"            -> 1
      [] label = "NHEJ"            -> 2
      [] label = "Insertion"       -> 3
      [] label = "Other"           -> 4
      [] label = "Non-MH Deletion" -> 5
      [] OTHER                     -> 0

\* Mutant: on the reverse strand only the right label is exchanged.
reported_lengths_half_swap(sub) ==
    IF rev THEN [lft_del |-> Len(sub.lft_del), rt_del |-> Len(sub.lft_del)]
           ELSE [lft_del |-> Len(sub.lft_del), rt_del |-> Len(sub.rt_del)]

\* Lines 318-319, 337-338 (and 462-463, 478-479): the deletion lengths as
\* reported, exchanged for a 3' strand guide.
reported_lengths(sub) ==
    IF rev THEN [lft_del |-> Len(sub.rt_del), rt_del |-> Len(sub.lft_del)]
           ELSE [lft_del |-> Len(sub.lft_del), rt_del |-> Len(sub.rt_del)]

\* Mutant: on the reverse strand the junctions are exchanged, not mirrored.
reported_junctions_exchanged(sub) ==
    IF rev
    THEN [con_lft |-> sub.con_rt, con_rt |-> sub.con_lft,
          ref_lft |-> sub.ref_rt, ref_rt |-> sub.ref_lft]
    ELSE [con_lft |-> sub.con_lft, con_rt |-> sub.con_rt,
          ref_lft |-> sub.ref_lft, ref_rt |-> sub.ref_rt]

\* Lines 326-329, 343-348 (and 471-474, 485-490): the junctions as reported.
reported_junctions(sub) ==
    IF rev
    THEN [con_lft |-> Len(rcomp(sub.consensus)) - sub.con_rt,
          con_rt  |-> Len(rcomp(sub.consensus)) - sub.con_lft,
          ref_lft |-> Len(target_region) - sub.ref_rt,
          ref_rt  |-> Len(target_region) - sub.ref_lft]
    ELSE [con_lft |-> sub.con_lft, con_rt |-> sub.con_rt,
          ref_lft |-> sub.ref_lft, ref_rt |-> sub.ref_rt]

\* A string as reported: reverse-complemented for a 3' strand guide.
reported(s) == IF rev THEN rcomp(s) ELSE s

\* key_count / (summary_data[1] - summary_data[6][1]), 0 on ZeroDivisionError:
\* a fraction [num, den].
key_frequency(key_count, sd) ==
    IF sd.s1 - sd.s6[2] = 0
    THEN [num |-> 0, den |-> 1]
    ELSE [num |-> key_count, den |-> sd.s1 - sd.s6[2]]

\* One row of the frequency file, lines 311-383.
freq_row(entry, sd) ==
    LET sub                == entry.sub
        microhomology_size == Len(sub.mh)
        ins_size           == Len(sub.insertion)
        del_size           == Len(sub.lft_del) + Len(sub.rt_del) + microhomology_size
        lens               == reported_lengths(sub)
        junc               == reported_junctions(sub)
        insertion          == reported(sub.insertion)
        label              == scar_type(sub.tag, del_size, microhomology_size, ins_size)
        templates          == IF label = "Insertion"
                              THEN templated_insertion_search(insertion,
                                       junc.ref_lft, junc.ref_rt)
                              ELSE << <<>>, <<>> >>
    IN  [key_count |-> entry.count,
         key_frequency |-> key_frequency(entry.count, sd),
         scar_type |-> label,
         lft_del |-> lens.lft_del,
         rt_del |-> lens.rt_del,
         del_size |-> del_size,
         microhomology |-> reported(sub.mh),
         microhomology_size |-> microhomology_size,
         insertion |-> insertion,
         ins_size |-> ins_size,
         lft_template |-> templates[1],
         rt_template |-> templates[2],
         consensus_lft_junction |-> junc.con_lft,
         consensus_rt_junction |-> junc.con_rt,
         ref_lft_junction |-> junc.ref_lft,
         ref_rt_junction |-> junc.ref_rt,
         consensus |-> reported(sub.consensus),
         target_sequence |-> reported(target_region)]

\* Mutant: an entry tagged HR adds its count to the first counter.
RECURSIVE junction_counts_with_hr(_, _, _)
junction_counts_with_hr(d, i, jtd) ==
    IF i > Len(d) THEN jtd
    ELSE LET sub  == d[i].sub
             slot == junction_slot(
                         scar_type(sub.tag,
                                   Len(sub.lft_del) + Len(sub.rt_del) + Len(sub.mh),
                                   Len(sub.mh), Len(sub.insertion)))
         IN  junction_counts_with_hr(d, i + 1,
                 [jtd EXCEPT ![IF slot = 0 THEN 1 ELSE slot] = @ + d[i].count])

\* junction_type_data after the loop over the table: each entry adds its
\* count to the slot of its label.
RECURSIVE junction_counts(_, _, _)
junction_counts(d, i, jtd) ==
    IF i > Len(d) THEN jtd
    ELSE LET sub  == d[i].sub
             slot == junction_slot(
                         scar_type(sub.tag,
                                   Len(sub.lft_del) + Len(sub.rt_del) + Len(sub.mh),
                                   Len(sub.mh), Len(sub.insertion)))
         IN  junction_counts(d, i + 1,
                 IF slot = 0 THEN jtd ELSE [jtd EXCEPT ![slot] = @ + d[i].count])

\* The for loop of data_processing is over; frequency_output writes one row
\* per entry of the table and stores junction_type_data in summary_data[8].
FrequencyOutput ==
    /\ pc = "reads"
    /\ loop_count = Len(sequence_list)
    /\ freq_rows' = [i \in 1..Len(results_freq_dict) |->
                        freq_row(results_freq_dict[i], summary_data)]
    /\ summary_data' =
           [summary_data EXCEPT !.s8 =
               junction_counts(results_freq_dict, 1, <<0, 0, 0, 0, 0>>)]
    /\ pc' = IF OutputRawData THEN "raw_data_output" ELSE "done"
    /\ UNCHANGED <<sequence_list, loop_count, last_read, read_results_list,
                   results_freq_dict, raw_rows, N_Limit, Minimum_Length,
                   OutputRawData>>
    /\ UNCHANGED <<cutVars, demuxVars, runVars>>

\* One row of the raw data file, lines 462-498.
raw_row(sub) ==
    LET lens == reported_lengths(sub)
        junc == reported_junctions(sub)
    IN  [lft_del |-> lens.lft_del,
         rt_del |-> lens.rt_del,
         del_size |-> Len(sub.lft_del) + Len(sub.rt_del) + Len(sub.mh),
         microhomology |-> reported(sub.mh),
         total_ins |-> reported(sub.insertion),
         ins_size |-> Len(sub.insertion),
         consensus_lft_junction |-> junc.con_lft,
         consensus_rt_junction |-> junc.con_rt,
         ref_lft_junction |-> junc.ref_lft,
         ref_rt_junction |-> junc.ref_rt,
         consensus |-> reported(sub.consensus),
         target_region |-> reported(target_region)]

\* Mutant: a read with the same lengths as a row already written gets no row.
RECURSIVE raw_rows_of_distinct(_, _)
raw_rows_of_distinct(l, i) ==
    IF i > Len(l) THEN <<>>
    ELSE LET row  == raw_row(l[i])
             rest == raw_rows_of_distinct(l, i + 1)
         IN  (IF (row.del_size = 0 /\ row.ins_size = 0)
                 \/ \E k \in 1..(i - 1) : raw_row(l[k]) = row
              THEN <<>> ELSE <<row>>)
             \o rest

\* The rows of the raw data file: one per read of read_results_list, the
\* unaltered reads (del_size == 0 and ins_size == 0) skipped.
RECURSIVE raw_rows_of(_, _)
raw_rows_of(l, i) ==
    IF i > Len(l) THEN <<>>
    ELSE LET row == raw_row(l[i])
         IN  (IF row.del_size = 0 /\ row.ins_size = 0 THEN <<>> ELSE <<row>>)
             \o raw_rows_of(l, i + 1)

RawDataOutput ==
    /\ pc = "raw_data_output"
    /\ raw_rows' = raw_rows_of(read_results_list, 1)
    /\ pc' = "done"
    /\ UNCHANGED <<sequence_list, loop_count, last_read, summary_data,
                   read_results_list, results_freq_dict, freq_rows, N_Limit,
                   Minimum_Length, OutputRawData>>
    /\ UNCHANGED <<cutVars, demuxVars, runVars>>

-----------------------------------------------------------------------------
(* The loci of the cutsite specification                                   *)

\* Longest run of flanking bases on either side of the guide site.
MaxFlank == 18

\* Most copies of the guide site in one region.
MaxCopies == 2

Site == <<"G","A","T","T","A","C","A","G">>

Decoy == <<"G","G","A","T","C","C","A","A">>

\* T...T site (A site)* C...C
RECURSIVE Copies(_)
Copies(n) == IF n <= 1 THEN Site ELSE Site \o <<"A">> \o Copies(n - 1)

FlankedRegion(pre, copies, post) == Rep("T", pre) \o Copies(copies) \o Rep("C", post)

\* The scenario of the spec: "ACGTACGT" at offset 90 of a 200-nt region.
ExampleGuide == <<"A","C","G","T","A","C","G","T">>

ExampleRegion == Rep("T", 90) \o ExampleGuide \o Rep("C", 102)

\* The summary file before data_output: no library row, no Unidentified row.
NoSummary == [libraries |-> <<>>, unidentified |-> <<>>]

\* index_matching has not been called yet: nothing was returned (line 1068).
NoCall ==
    [raised |-> FALSE, match_found |-> FALSE, left_seq |-> <<>>, right_seq |-> <<>>,
     index_key |-> "", read1 |-> [h1 |-> <<>>, h2 |-> <<>>, seq |-> <<>>],
     read2 |-> NoRead]

\* No manifest is read, no job is run and no summary is written.
RunIdle ==
    /\ sample_index_list = <<>>
    /\ HR_Donor = FALSE
    /\ data_list = <<>>
    /\ index_name = None
    /\ summary_data_list = <<>>
    /\ summary_rows = NoSummary
    /\ Spawn = 1
    /\ pool = <<>>

\* The demultiplexer is not part of this specification.
DemuxIdle ==
    /\ dpc = "idle"
    /\ Platform = "Illumina"
    /\ PEAR = FALSE
    /\ index_dict = <<>>
    /\ fastq1 = <<>>
    /\ fastq2 = <<>>
    /\ read_count = 0
    /\ read_count_dict = <<>>
    /\ sequence_dict = <<>>
    /\ ret = NoCall

\* data_processing, lines 151-154, before any read is taken.
InitSummary ==
    [s1 |-> 0, s2 |-> 0, s3 |-> 0, s4 |-> 0, s5 |-> 0, s6 |-> <<0, 0>>,
     s7 |-> <<0, 0>>, s8 |-> "junction data", s10 |-> <<0, 0>>]

InitReadFields ==
    /\ loop_count = 0
    /\ last_read = None
    /\ summary_data = InitSummary
    /\ read_results_list = <<>>
    /\ results_freq_dict = <<>>
    /\ freq_rows = <<>>
    /\ raw_rows = <<>>

\* The library has no reads.
ReadsIdle ==
    /\ sequence_list = <<>>
    /\ N_Limit = <<1, 10>>
    /\ Minimum_Length = 0
    /\ OutputRawData = FALSE
    /\ InitReadFields

InitWorkerFields ==
    /\ cutsite = None
    /\ lower_limit = None
    /\ upper_limit = None
    /\ target_length = None
    /\ left_target_windows = <<>>
    /\ right_target_windows = <<>>

InitCutsite ==
    /\ pc = "cutsite_search"
    /\ \/ /\ \E pre \in 0..MaxFlank, post \in 0..MaxFlank, copies \in 1..MaxCopies :
                 target_region = FlankedRegion(pre, copies, post)
          /\ sgrna \in {Site, rcomp(Site), Decoy}
          /\ rev \in BOOLEAN
       \/ /\ target_region = ExampleRegion
          /\ sgrna = ExampleGuide
          /\ rev = FALSE
    /\ InitWorkerFields
    /\ ReadsIdle
    /\ DemuxIdle
    /\ RunIdle

NextCutsite == CutsiteSearch \/ WindowMapping

SpecCutsite == InitCutsite /\ [][NextCutsite]_vars

-----------------------------------------------------------------------------
(* The runs of the demultiplexing specification                            *)

\* Most indices in the sample manifest.
MaxIndices == 2

\* Most complete read pairs in the FASTQ streams.
MaxPairs == 2

\* index_dict[name] = [right index, 0, left index, 0, name, sample,
\* replicate, target]: idx0 is field [0], idx2 field [2], target field [7].
IndexPool ==
    {[name |-> "D501", idx0 |-> <<"A","A","A","A">>, idx2 |-> <<"C","C","C","C">>,
      target |-> "HPRT"],
     [name |-> "D502", idx0 |-> <<"A","A","A","T">>, idx2 |-> <<"C","C","C","C">>,
      target |-> "HPRT"],
     [name |-> "D503", idx0 |-> <<"G","G","G","G">>, idx2 |-> <<"T","T","T","T">>,
      target |-> "AAVS1.1"]}

\* The manifests: every sequence of at most MaxIndices distinct indices.
Manifests ==
    UNION {{m \in [1..n -> IndexPool] : \A i, j \in 1..n : i # j => m[i] # m[j]} :
           n \in 0..MaxIndices}

\* The index tokens a read carries: x is compared with field [2] of an
\* index, y with field [0].
TokenPairs ==
    {<< <<"C","C","C","C">>, <<"A","A","A","T">> >>,
     << <<"C","C","C","C">>, <<"A","A","A","A">> >>,
     << <<"T","T","T","T">>, <<"G","G","G","G">> >>,
     << <<"C","C","G","G">>, <<"A","A","T","T">> >>,
     << <<"C","C","C","C">>, <<"G","G","G","G">> >>}

Body1 == <<"G","A","T","T","A","C">>

Body2 == <<"C","A","T","G","A","T">>

\* Read 1 of a fragment: the header names the tokens as ...:x+y, the
\* sequence starts with x and ends with y.
Read1(t) == [h1 |-> t[1], h2 |-> t[2], seq |-> t[1] \o Body1 \o t[2]]

\* Read 2 of a fragment: it starts with the reverse complement of y.
Read2(t) == [h1 |-> t[1], h2 |-> t[2], seq |-> rcomp(t[2]) \o Body2]

Platforms == {"Illumina", "Ramsden", "MiSeq"}

\* The worker is not part of the demultiplexing specification.
WorkerIdle ==
    /\ pc = "idle"
    /\ rev = FALSE
    /\ sgrna = <<>>
    /\ target_region = <<>>
    /\ InitWorkerFields
    /\ ReadsIdle

\* The FASTQ streams hold n1 and n2 reads of the same fragments; one stream
\* may be a read longer than the other.
InitDemux ==
    /\ dpc = "demultiplex"
    /\ Platform \in Platforms
    /\ PEAR \in BOOLEAN
    /\ index_dict \in Manifests
    /\ \E n1 \in 0..(MaxPairs + 1), n2 \in 0..(MaxPairs + 1) :
          \E ts \in [1..Max(n1, n2) -> TokenPairs] :
             /\ Min(n1, n2) <= MaxPairs
             /\ n1 - n2 \in {-1, 0, 1}
             /\ (PEAR => n2 = n1)
             /\ fastq1 = [i \in 1..n1 |-> Read1(ts[i])]
             /\ fastq2 = IF PEAR THEN <<>> ELSE [i \in 1..n2 |-> Read2(ts[i])]
    /\ read_count = 0
    /\ read_count_dict = <<>>
    /\ sequence_dict = <<>>
    /\ ret = NoCall
    /\ WorkerIdle
    /\ RunIdle

NextDemux == Demultiplex \/ ConsensusDemultiplex

SpecDemux == InitDemux /\ [][NextDemux]_vars

-----------------------------------------------------------------------------
(* The libraries of the worker specification                               *)

\* Most reads in one library.
MaxReads == 3

\* The amplicon: a 60-nt target region in which every 5-mer occurs once on
\* either strand.
Fragment ==
    <<"C","T","C","C","A","G","C","G","C","G","G","T","C","A","G","T","T","C","C","A",
      "T","C","A","C","C","C","T","A","A","G","T","A","A","C","C","G","A","A","T","A",
      "A","T","G","C","G","T","T","C","G","C","T","C","T","A","T","T","G","A","C","T">>

\* The guide site, on the 5' strand.
Guide == PySlice(Fragment, 22, 30)

\* A read pair of the amplicon: read 1 is its first a nt, read 2 the
\* reverse complement of the nt from b up to c.
Pair(a, b, c) == <<PySlice(Fragment, 0, a), rcomp(PySlice(Fragment, b, c))>>

\* Pairs that overlap at the very edge of the left bound, overlap inside the
\* bounds, overlap only beyond the right bound, and have a 32-nt left read.
PairPool == {Pair(33, 10, 60), Pair(40, 10, 60), Pair(40, 8, 48), Pair(32, 10, 60)}

\* PEAR consensus strings: none, the amplicon, a longer one and one rich in N.
PearPool ==
    {<<>>, Fragment, PySlice(Fragment, 0, 40) \o PySlice(Fragment, 34, 60),
     Rep("N", 8) \o Fragment}

\* The worker is constructed with the reads of its library (ScarSearch.__init__)
\* and data_processing has set summary_data.
Init ==
    /\ pc = "cutsite_search"
    /\ target_region = Fragment
    /\ rev \in BOOLEAN
    /\ sgrna = (IF rev THEN rcomp(Guide) ELSE Guide)
    /\ InitWorkerFields
    /\ PEAR \in BOOLEAN
    /\ \E n \in 0..MaxReads :
          sequence_list \in [1..n -> IF PEAR THEN PearPool ELSE PairPool]
    /\ N_Limit = <<1, 10>>
    /\ Minimum_Length = Len(Fragment)
    /\ OutputRawData \in BOOLEAN
    /\ InitReadFields
    /\ dpc = "idle"
    /\ Platform = "Illumina"
    /\ index_dict = <<>>
    /\ fastq1 = <<>>
    /\ fastq2 = <<>>
    /\ read_count = 0
    /\ read_count_dict = <<>>
    /\ sequence_dict = <<>>
    /\ ret = NoCall
    /\ RunIdle

Next ==
    \/ CutsiteSearch
    \/ WindowMapping
    \/ ProcessRead
    \/ FrequencyOutput
    \/ RawDataOutput

Spec == Init /\ [][Next]_vars

-----------------------------------------------------------------------------
(* DataProcessing.dictionary_build                                         *)

\* str.upper() of one character of an index sequence.
Upper(b) ==
    CASE b = "a" -> "A"
      [] b = "c" -> "C"
      [] b = "g" -> "G"
      [] b = "t" -> "T"
      [] OTHER   -> b

\* master_index_dict: index identifier -> [left index, right index], as the
\* master index file spells them.
master_index_dict ==
    [name \in {"D501", "D502", "D503"} |->
        CASE name = "D501" -> << <<"C","C","C","C">>, <<"A","A","A","A">> >>
          [] name = "D502" -> << <<"c","c","C","C">>, <<"A","A","a","t">> >>
          [] name = "D503" -> << <<"T","T","T","T">>, <<"G","G","G","G">> >>]

\* Mutant: a repeated identifier replaces the entry it repeats.
dictionary_build_row_overwrite(d, sample) ==
    IF Len(sample) < 5
    THEN [status |-> "SystemExit", index_dict |-> d]
    ELSE IF sample[1] \notin DOMAIN master_index_dict
    THEN [status |-> "KeyError", index_dict |-> d]
    ELSE LET entry == [name   |-> sample[1],
                       idx0   |-> [i \in 1..Len(master_index_dict[sample[1]][2]) |->
                                      Upper(master_index_dict[sample[1]][2][i])],
                       idx2   |-> [i \in 1..Len(master_index_dict[sample[1]][1]) |->
                                      Upper(master_index_dict[sample[1]][1][i])],
                       target |-> sample[5]]
         IN  IF \E k \in 1..Len(d) : d[k].name = sample[1]
             THEN [status |-> "dictionary_build",
                   index_dict |-> [k \in 1..Len(d) |->
                                      IF d[k].name = sample[1] THEN entry ELSE d[k]]]
             ELSE [status |-> "dictionary_build", index_dict |-> Append(d, entry)]

\* One iteration of the loop over sample_index_list, lines 913-932: the
\* dictionary d so far and the manifest row sample = [index name, sample
\* name, replicate, _, target name].
dictionary_build_row(d, sample) ==
    IF \E k \in 1..Len(d) : d[k].name = sample[1]
    THEN \* "The index ... is duplicated."
         [status |-> "SystemExit", index_dict |-> d]
    ELSE IF Len(sample) < 5
    THEN \* IndexError: "Sample Manifest is missing Target Name column"
         [status |-> "SystemExit", index_dict |-> d]
    ELSE IF sample[1] \notin DOMAIN master_index_dict
    THEN [status |-> "KeyError", index_dict |-> d]
    ELSE [status |-> "dictionary_build",
          index_dict |->
              Append(d, [name   |-> sample[1],
                         idx0   |-> [i \in 1..Len(master_index_dict[sample[1]][2]) |->
                                        Upper(master_index_dict[sample[1]][2][i])],
                         idx2   |-> [i \in 1..Len(master_index_dict[sample[1]][1]) |->
                                        Upper(master_index_dict[sample[1]][1][i])],
                         target |-> sample[5]])]

\* The rows taken so far: a row that is stored adds one entry, in order.
DictionaryBuild ==
    /\ dpc = "dictionary_build"
    /\ IF Len(index_dict) = Len(sample_index_list)
       THEN \* return index_dict
            /\ dpc' = "built"
            /\ UNCHANGED index_dict
       ELSE LET r == dictionary_build_row(index_dict,
                         sample_index_list[Len(index_dict) + 1])
            IN  /\ dpc' = r.status
                /\ index_dict' = r.index_dict
    /\ UNCHANGED <<Platform, PEAR, fastq1, fastq2, read_count, read_count_dict,
                   sequence_dict, ret>>
    /\ UNCHANGED <<pc, cutVars, readVars, runVars>>

\* Most rows in one manifest.
MaxRows == 3

\* Manifest rows: three indices, the first of them again for another
\* sample, one row without the target column and one index that the master
\* index file does not have.
RowPool ==
    {<<"D501", "S1", "1", "", "HPRT">>,
     <<"D502", "S1", "2", "", "HPRT">>,
     <<"D503", "S2", "1", "", "AAVS1.1">>,
     <<"D501", "S3", "1", "", "AAVS1.1">>,
     <<"D502", "S1", "2", "">>,
     <<"D999", "S4", "1", "", "HPRT">>}

InitManifest ==
    /\ dpc = "dictionary_build"
    /\ \E n \in 0..MaxRows : sample_index_list \in [1..n -> RowPool]
    /\ index_dict = <<>>
    /\ Platform = "Illumina"
    /\ PEAR = FALSE
    /\ fastq1 = <<>>
    /\ fastq2 = <<>>
    /\ read_count = 0
    /\ read_count_dict = <<>>
    /\ sequence_dict = <<>>
    /\ ret = NoCall
    /\ HR_Donor = FALSE
    /\ data_list = <<>>
    /\ index_name = None
    /\ summary_data_list = <<>>
    /\ summary_rows = NoSummary
    /\ Spawn = 1
    /\ pool = <<>>
    /\ WorkerIdle

NextManifest == DictionaryBuild

SpecManifest == InitManifest /\ [][NextManifest]_vars

-----------------------------------------------------------------------------
(* DataProcessing.main_loop: the jobs                                      *)

\* target_dict[target_name]: the region the reference gives for the locus,
\* [4] the guide and [5] == "YES" for a guide of the 3' strand.
target_dict(target_name) ==
    IF target_name = "AAVS1.1"
    THEN [region |-> Fragment, sgrna |-> rcomp(Guide), rev |-> TRUE]
    ELSE [region |-> Fragment, sgrna |-> Guide, rev |-> FALSE]

\* Mutant: the jobs are submitted in dictionary order.
dictionary_order(d) == d

\* sorted(d, key=lambda k: len(d[k]), reverse=True): the entries by falling
\* number of reads; the sort is stable, equal ones stay in dictionary order.
RECURSIVE sorted_by_reads(_)
sorted_by_reads(d) ==
    IF d = <<>> THEN <<>>
    ELSE LET first == CHOOSE i \in 1..Len(d) :
                         /\ \A j \in 1..Len(d) : Len(d[j].items) <= Len(d[i].items)
                         /\ \A j \in 1..(i - 1) : Len(d[j].items) < Len(d[i].items)
             rest  == [j \in 1..(Len(d) - 1) |-> IF j < first THEN d[j] ELSE d[j + 1]]
         IN  <<d[first]>> \o sorted_by_reads(rest)

\* A job of data_list that no worker process has taken yet.
Queued == [status |-> "queued", state |-> <<>>]

\* main_loop, lines 866-876: demultiplexing is over; one job per key of
\* sequence_dict, the dictionary is cleared, the pool has the jobs.
SubmitJobs ==
    /\ dpc = "eof"
    /\ data_list' = sorted_by_reads(sequence_dict)
    /\ pool' = [i \in 1..Len(sequence_dict) |-> Queued]
    /\ sequence_dict' = <<>>
    /\ dpc' = "starmap"
    /\ UNCHANGED <<Platform, PEAR, index_dict, fastq1, fastq2, read_count,
                   read_count_dict, ret>>
    /\ UNCHANGED <<sample_index_list, HR_Donor, index_name, summary_data_list,
                   summary_rows, Spawn>>
    /\ UNCHANGED <<pc, cutVars, readVars>>

\* Every job runs ScarSearch in a worker process of its own memory.  The
\* ScarSearch variables show the process that takes the next step
\* ("running"); a process that waits for its turn keeps its object in
\* pool ("waiting").
JobsIn(status) == {i \in 1..Len(pool) : pool[i].status = status}

\* The ScarSearch object of the running process.
scar_search ==
    [pc |-> pc, index_name |-> index_name, cut |-> cutVars,
     reads |-> <<sequence_list, loop_count, last_read, summary_data,
                 read_results_list, results_freq_dict, freq_rows, raw_rows>>]

\* pool when the running process, if there is one, has to wait.
pool_waiting ==
    [i \in 1..Len(pool) |->
        IF pool[i].status = "running"
        THEN [status |-> "waiting", state |-> <<scar_search>>]
        ELSE pool[i]]

\* ScarSearch.__init__ (26-49) and the head of data_processing (150-171,
\* 174) for the next job of data_list, in a free worker process.
StartJob ==
    /\ dpc = "starmap"
    /\ JobsIn("queued") # {}
    /\ Cardinality(JobsIn("running") \cup JobsIn("waiting")) < Spawn
    /\ JobsIn("running") = {} => pc = "idle"
    /\ LET i   == CHOOSE j \in JobsIn("queued") : \A k \in JobsIn("queued") : j <= k
           job == data_list[i]
           t   == target_dict(Locus(job.key))
       IN  /\ pool' = [pool_waiting EXCEPT ![i] = [status |-> "running", state |-> <<>>]]
           /\ index_name' = job.key
           /\ sequence_list' = job.items
           /\ target_region' = t.region
           /\ sgrna' = t.sgrna
           /\ rev' = t.rev
    /\ cutsite' = None
    /\ lower_limit' = None
    /\ upper_limit' = None
    /\ target_length' = None
    /\ left_target_windows' = <<>>
    /\ right_target_windows' = <<>>
    /\ loop_count' = 0
    /\ last_read' = None
    /\ summary_data' = InitSummary
    /\ read_results_list' = <<>>
    /\ results_freq_dict' = <<>>
    /\ freq_rows' = <<>>
    /\ raw_rows' = <<>>
    /\ pc' = "cutsite_search"
    /\ UNCHANGED <<N_Limit, Minimum_Length, OutputRawData>>
    /\ UNCHANGED <<sample_index_list, HR_Donor, data_list, summary_data_list,
                   summary_rows, Spawn>>
    /\ UNCHANGED demuxVars

\* The operating system gives the next step to a waiting worker process.
Schedule ==
    /\ dpc = "starmap"
    /\ \E i \in JobsIn("waiting") :
          LET s == pool[i].state[1]
          IN  /\ pool' = [pool_waiting EXCEPT ![i] = [status |-> "running", state |-> <<>>]]
              /\ pc' = s.pc
              /\ index_name' = s.index_name
              /\ rev' = s.cut[1]
              /\ sgrna' = s.cut[2]
              /\ target_region' = s.cut[3]
              /\ cutsite' = s.cut[4]
              /\ lower_limit' = s.cut[5]
              /\ upper_limit' = s.cut[6]
              /\ target_length' = s.cut[7]
              /\ left_target_windows' = s.cut[8]
              /\ right_target_windows' = s.cut[9]
              /\ sequence_list' = s.reads[1]
              /\ loop_count' = s.reads[2]
              /\ last_read' = s.reads[3]
              /\ summary_data' = s.reads[4]
              /\ read_results_list' = s.reads[5]
              /\ results_freq_dict' = s.reads[6]
              /\ freq_rows' = s.reads[7]
              /\ raw_rows' = s.reads[8]
    /\ UNCHANGED <<N_Limit, Minimum_Length, OutputRawData>>
    /\ UNCHANGED <<sample_index_list, HR_Donor, data_list, summary_data_list,
                   summary_rows, Spawn>>
    /\ UNCHANGED demuxVars

\* The results of starmap are in the order of data_list: the results so far
\* with the result of job i put in its place.
with_result(results, i, result) ==
    LET before == Cardinality({j \in JobsIn("returned") : j < i})
    IN  SubSeq(results, 1, before) \o <<result>>
        \o SubSeq(results, before + 1, Len(results))

\* data_processing returns (line 267): the job is one of the results of
\* starmap.
FinishJob ==
    /\ dpc = "starmap"
    /\ pc = "done"
    /\ LET i == CHOOSE j \in JobsIn("running") : TRUE
       IN  /\ pool' = [pool EXCEPT ![i] = [status |-> "returned", state |-> <<>>]]
           /\ summary_data_list' =
                  with_result(summary_data_list, i,
                              [index_name |-> index_name, summary_data |-> summary_data])
    /\ pc' = "idle"
    /\ UNCHANGED <<sample_index_list, HR_Donor, data_list, index_name, summary_rows,
                   Spawn>>
    /\ UNCHANGED <<cutVars, demuxVars, readVars>>

-----------------------------------------------------------------------------
(* DataProcessing.data_output                                              *)

\* A fraction as the summary file shows it: the quotient num / den, or the
\* text 'nan'.
Quotient(num, den) == [nan |-> FALSE, num |-> num, den |-> den]

NaN == [nan |-> TRUE, num |-> 0, den |-> 1]

\* Lines 1162-1173: a count over the cut reads, 'nan' when there are none.
normalized(count, cut) == IF cut = 0 THEN NaN ELSE Quotient(count, cut)

\* Lines 1119-1182: the row of one library, or the exception its arithmetic
\* raises.  hr_frequency is a sequence of no value (no HR donor) or of one.
library_row(job) ==
    LET sd                 == job.summary_data
        library_read_count == Get(read_count_dict, job.index_name)
        passing_filters    == sd.s1
        cut                == sd.s1 - sd.s6[2] - sd.s6[1]
    IN  IF library_read_count = 0 \/ read_count = 0
        THEN \* lines 1123, 1125
             [raised |-> "ZeroDivisionError", row |-> <<>>]
        ELSE IF HR_Donor /\ passing_filters = 0
        THEN \* line 1150
             [raised |-> "ZeroDivisionError", row |-> <<>>]
        ELSE [raised |-> "",
              row |-> [index_name |-> job.index_name,
                       library_read_count |-> library_read_count,
                       fraction_all_reads |-> Quotient(library_read_count, read_count),
                       passing_filters |-> passing_filters,
                       fraction_passing |-> Quotient(passing_filters, library_read_count),
                       con_fail |-> sd.s7[2],
                       no_junction |-> sd.s6[1],
                       cut |-> cut,
                       cut_fraction |-> IF passing_filters = 0 THEN NaN
                                        ELSE Quotient(cut, passing_filters),
                       hr_frequency |-> IF ~HR_Donor THEN <<>>
                                        ELSE <<Quotient(sd.s10[1] + sd.s10[2],
                                                        passing_filters)>>,
                       left_del |-> sd.s2,
                       right_del |-> sd.s3,
                       total_ins |-> sd.s4,
                       microhomology |-> sd.s5,
                       microhomology_fraction |-> normalized(sd.s5, cut),
                       tmej |-> sd.s8[1],
                       tmej_fraction |-> normalized(sd.s8[1], cut),
                       nhej |-> sd.s8[2],
                       nhej_fraction |-> normalized(sd.s8[2], cut),
                       non_microhomology_del |-> sd.s8[5],
                       non_mh_del_fraction |-> normalized(sd.s8[5], cut),
                       large_ins |-> sd.s8[3],
                       large_ins_fraction |-> normalized(sd.s8[3], cut),
                       other_scar |-> sd.s8[4]]]

\* The for loop of lines 1118-1182 from job i on: the rows, or the first
\* exception.
RECURSIVE library_rows(_, _)
library_rows(l, i) ==
    IF i > Len(l) THEN [raised |-> "", rows |-> <<>>]
    ELSE LET r == library_row(l[i])
         IN  IF r.raised # "" THEN [raised |-> r.raised, rows |-> <<>>]
             ELSE LET rest == library_rows(l, i + 1)
                  IN  [raised |-> rest.raised,
                       rows |-> IF rest.raised # "" THEN <<>>
                                ELSE <<r.row>> \o rest.rows]

\* Lines 1184-1185: the Unidentified row; read_count_dict is a defaultdict
\* without a default, so a key that is not there raises KeyError.
unidentified_row(counts) ==
    IF "unidentified" \notin DOMAIN counts
    THEN [raised |-> "KeyError", row |-> <<>>]
    ELSE IF read_count = 0
    THEN [raised |-> "ZeroDivisionError", row |-> <<>>]
    ELSE [raised |-> "",
          row |-> <<[count |-> counts["unidentified"],
                     fraction |-> Quotient(counts["unidentified"], read_count)]>>]

\* Mutant: the summary is written as soon as one job has returned.
DataOutput_first_result ==
    /\ dpc = "starmap"
    /\ summary_data_list # <<>>
    /\ LET libs == library_rows(summary_data_list, 1)
           unid == unidentified_row(read_count_dict)
       IN  IF libs.raised # ""
           THEN /\ dpc' = libs.raised
                /\ UNCHANGED summary_rows
           ELSE IF unid.raised # ""
           THEN /\ dpc' = unid.raised
                /\ UNCHANGED summary_rows
           ELSE /\ dpc' = "finished"
                /\ summary_rows' = [libraries |-> libs.rows, unidentified |-> unid.row]
    /\ UNCHANGED <<Platform, PEAR, index_dict, fastq1, fastq2, read_count,
                   read_count_dict, sequence_dict, ret>>
    /\ UNCHANGED <<sample_index_list, HR_Donor, data_list, index_name,
                   summary_data_list, Spawn, pool>>
    /\ UNCHANGED <<pc, cutVars, readVars>>

\* main_loop, line 879: starmap has returned the summary of every job;
\* data_output writes the file at its end (line 1187), so an exception
\* leaves no row.
DataOutput ==
    /\ dpc = "starmap"
    /\ pc = "idle"
    /\ Len(summary_data_list) = Len(data_list)
    /\ LET libs == library_rows(summary_data_list, 1)
           unid == unidentified_row(read_count_dict)
       IN  IF libs.raised # ""
           THEN /\ dpc' = libs.raised
                /\ UNCHANGED summary_rows
           ELSE IF unid.raised # ""
           THEN /\ dpc' = unid.raised
                /\ UNCHANGED summary_rows
           ELSE /\ dpc' = "finished"
                /\ summary_rows' = [libraries |-> libs.rows, unidentified |-> unid.row]
    /\ UNCHANGED <<Platform, PEAR, index_dict, fastq1, fastq2, read_count,
                   read_count_dict, sequence_dict, ret>>
    /\ UNCHANGED <<sample_index_list, HR_Donor, data_list, index_name,
                   summary_data_list, Spawn, pool>>
    /\ UNCHANGED <<pc, cutVars, readVars>>

-----------------------------------------------------------------------------
(* The runs of the main loop specification                                 *)

\* Most reads in the FASTQ stream of one run.
MaxRunReads == 2

\* Most worker processes of the pool.
MaxSpawn == 2

\* The manifests of the runs: none, one library, two libraries of two loci.
RunManifests ==
    {m \in Manifests : \A i \in 1..Len(m) : m[i].name \in {"D501", "D503"}
                                            /\ (Len(m) = 2 => m[1].name = "D501")}

\* The tokens of D501, of D503 and of no index.
RunTokenPairs ==
    {<< <<"C","C","C","C">>, <<"A","A","A","A">> >>,
     << <<"T","T","T","T">>, <<"G","G","G","G">> >>,
     << <<"C","C","G","G">>, <<"A","A","T","T">> >>}

\* A merged read of the amplicon between the tokens of its indices.
MergedRead(t) ==
    [h1 |-> t[1], h2 |-> t[2],
     seq |-> t[1] \o PySlice(Fragment, 0, 40) \o PySlice(Fragment, 34, 60) \o t[2]]

\* main_loop is entered with the manifest built and the FASTQ streams open.
InitRun ==
    /\ dpc = "demultiplex"
    /\ Platform \in Platforms
    /\ PEAR \in BOOLEAN
    /\ HR_Donor \in BOOLEAN
    /\ index_dict \in RunManifests
    /\ \E n \in 0..MaxRunReads :
          \E ts \in [1..n -> RunTokenPairs], long \in [1..n -> BOOLEAN] :
             /\ (~PEAR => \A i \in 1..n : ~long[i])
             /\ fastq1 = [i \in 1..n |-> IF long[i] THEN MergedRead(ts[i])
                                                    ELSE Read1(ts[i])]
             /\ fastq2 = IF PEAR THEN <<>> ELSE [i \in 1..n |-> Read2(ts[i])]
    /\ read_count = 0
    /\ read_count_dict = <<>>
    /\ sequence_dict = <<>>
    /\ ret = NoCall
    /\ sample_index_list = <<>>
    /\ data_list = <<>>
    /\ index_name = None
    /\ summary_data_list = <<>>
    /\ summary_rows = NoSummary
    /\ Spawn \in 1..MaxSpawn
    /\ pool = <<>>
    /\ N_Limit = <<1, 10>>
    /\ Minimum_Length = Len(Fragment)
    /\ OutputRawData \in BOOLEAN
    /\ sequence_list = <<>>
    /\ InitReadFields
    /\ pc = "idle"
    /\ rev = FALSE
    /\ sgrna = <<>>
    /\ target_region = <<>>
    /\ InitWorkerFields

NextRun ==
    \/ Demultiplex
    \/ ConsensusDemultiplex
    \/ SubmitJobs
    \/ StartJob
    \/ Schedule
    \/ CutsiteSearch
    \/ WindowMapping
    \/ ProcessRead
    \/ FrequencyOutput
    \/ RawDataOutput
    \/ FinishJob
    \/ DataOutput

SpecRun == InitRun /\ [][NextRun]_vars

-----------------------------------------------------------------------------
(* The runs of the job submission specification                            *)

\* Most reads in the FASTQ stream of a run that is followed up to starmap.
MaxJobReads == 3

\* main_loop is entered with the manifest built and the FASTQ streams open;
\* the streams have the same number of reads.
InitJobs ==
    /\ dpc = "demultiplex"
    /\ Platform \in Platforms
    /\ PEAR \in BOOLEAN
    /\ index_dict \in RunManifests
    /\ \E n \in 0..MaxJobReads :
          \E ts \in [1..n -> RunTokenPairs] :
             /\ fastq1 = [i \in 1..n |-> Read1(ts[i])]
             /\ fastq2 = IF PEAR THEN <<>> ELSE [i \in 1..n |-> Read2(ts[i])]
    /\ read_count = 0
    /\ read_count_dict = <<>>
    /\ sequence_dict = <<>>
    /\ ret = NoCall
    /\ WorkerIdle
    /\ RunIdle

\* main_loop, lines 863-876: demultiplexing, then the jobs.
NextJobs ==
    \/ Demultiplex
    \/ ConsensusDemultiplex
    \/ SubmitJobs

SpecJobs == InitJobs /\ [][NextJobs]_vars

-----------------------------------------------------------------------------
(* The read streams of the termination specification                       *)

\* The FASTQ streams hold n1 and n2 reads, any of them the shorter one; the
\* reads carry the tokens of D501 or of no index.
InitStreams ==
    /\ dpc = "demultiplex"
    /\ Platform \in Platforms
    /\ PEAR \in BOOLEAN
    /\ index_dict \in RunManifests
    /\ \E n1 \in 0..(MaxPairs + 1), n2 \in 0..(MaxPairs + 1) :
          \E ts \in [1..Max(n1, n2) -> {t \in RunTokenPairs : t[1][1] = "C"}] :
             /\ (PEAR => n2 = n1)
             /\ fastq1 = [i \in 1..n1 |-> Read1(ts[i])]
             /\ fastq2 = IF PEAR THEN <<>> ELSE [i \in 1..n2 |-> Read2(ts[i])]
    /\ read_count = 0
    /\ read_count_dict = <<>>
    /\ sequence_dict = <<>>
    /\ ret = NoCall
    /\ WorkerIdle
    /\ RunIdle

\* The read loop is a sequential while loop: it takes its next iteration
\* until it has left the loop.  Every iteration counts a read or leaves the
\* loop.
SpecDemuxFair == InitStreams /\ [][NextDemux]_vars /\ WF_<<dpc, read_count>>(NextDemux)

-----------------------------------------------------------------------------
(* The loci and the calls of the frequency specification                   *)

\* Most reads in one library of the frequency specification.
MaxFreqReads == 2

\* A 6-nt insertion: its first and its last 5 nt differ.
Ins6 == <<"C","G","A","A","T","G">>

\* The 5-nt strings templated_insertion_search may ask for when the
\* insertion is Ins5 or Ins6: first 5 nt, last 5 nt of Ins6, and the
\* reverse complement of each.
Motifs ==
    {PySlice(Ins6, 0, 5), PySlice(Ins6, -5, Len(Ins6)),
     rcomp(PySlice(Ins6, 0, 5)), rcomp(PySlice(Ins6, -5, Len(Ins6)))}

\* region with the string m written over it from offset pos on.
Planted(region, m, pos) ==
    [i \in 1..Len(region) |->
        IF i > pos /\ i <= pos + Len(m) THEN m[i - pos] ELSE region[i]]

\* A region of 80 nt without a motif: the guide site, less than 50 nt from
\* the start of the region, in a run of T.
PlainRegion == Planted(Rep("T", 80), Site, 18)

\* Offsets a motif is planted at: two left of the site, two within 50 nt right
\* of it, and one within 26 nt of the end of the region.
MotifOffsets == {2, 10, 30, 50, 70}

\* The target regions: no motif, one motif, or a motif at each of two
\* offsets, both left of the site, both right of it, or one on either side.
Regions ==
    {PlainRegion}
    \cup {Planted(PlainRegion, m, p) : m \in Motifs, p \in MotifOffsets}
    \cup {Planted(Planted(PlainRegion, m1, pp[1]), m2, pp[2]) :
          m1 \in Motifs, m2 \in Motifs, pp \in {<<2, 10>>, <<30, 50>>, <<10, 30>>}}

\* The calls the window classifier may return for a read of these loci:
\* every combination of the lengths and insertions, with and without the HR
\* tag, but the read without a deletion and an insertion.
WideShapes ==
    {sh \in {0, 2, 4} \X {0, 1} \X {0, 2} \X {<<>>, Ins1, Ins5, Ins6} \X {"", "HR"} :
        ~(sh[1] = 0 /\ sh[2] = 0 /\ sh[3] = 0 /\ sh[4] = <<>>)}

\* data_processing, lines 179-256: one iteration of the for loop, the
\* classifier answering from WideShapes.
ClassifyRead ==
    /\ pc = "reads"
    /\ loop_count < Len(sequence_list)
    /\ ProcessSeq(sequence_list[loop_count + 1], WideShapes)
    /\ UNCHANGED <<pc, sequence_list, freq_rows, raw_rows, N_Limit,
                   Minimum_Length, OutputRawData>>
    /\ UNCHANGED <<cutVars, demuxVars, runVars>>

\* The worker of a library of PEAR-merged reads, each the amplicon of its
\* locus, run with --OutputRawData; the libraries of more than one read are
\* of the region without a motif.
InitFrequency ==
    /\ pc = "cutsite_search"
    /\ target_region \in Regions
    /\ rev \in BOOLEAN
    /\ sgrna = (IF rev THEN rcomp(Site) ELSE Site)
    /\ InitWorkerFields
    /\ PEAR = TRUE
    /\ \E n \in 1..MaxFreqReads :
          /\ n > 1 => target_region = PlainRegion
          /\ sequence_list = [i \in 1..n |-> target_region]
    /\ N_Limit = <<1, 10>>
    /\ Minimum_Length = 50
    /\ OutputRawData = TRUE
    /\ InitReadFields
    /\ dpc = "idle"
    /\ Platform = "Illumina"
    /\ index_dict = <<>>
    /\ fastq1 = <<>>
    /\ fastq2 = <<>>
    /\ read_count = 0
    /\ read_count_dict = <<>>
    /\ sequence_dict = <<>>
    /\ ret = NoCall
    /\ RunIdle

NextFrequency ==
    \/ CutsiteSearch
    \/ WindowMapping
    \/ ClassifyRead
    \/ FrequencyOutput
    \/ RawDataOutput

SpecFrequency == InitFrequency /\ [][NextFrequency]_vars

-----------------------------------------------------------------------------
(* Properties of the cutsite locator                                       *)

\* The offsets at which w occurs in region as an exact substring.
Occurrences(region, w) ==
    {p \in 0..(Len(region) - Len(w)) : SubSeq(region, p + 1, p + Len(w)) = w}

\* The occurrences whose window the scan examines (window end < len - 1).
ScannedOccurrences(region, w) ==
    {p \in Occurrences(region, w) : p + Len(w) < Len(region) - 1}

Least(S) == CHOOSE p \in S : \A q \in S : p <= q

GuideOccurrences == Occurrences(target_region, working_sgrna(sgrna, rev))

GuideScanned == ScannedOccurrences(target_region, working_sgrna(sgrna, rev))

\* cutsite_search has returned with a cutsite.
CutsiteSet == pc \notin {"cutsite_search", "SystemExit"}

\* C7: when cutsite_search finds the guide at offset p the cutsite is
\* p + len(guide) - 3 on the forward strand and p + 3 on the reverse strand
\* (p the offset of the reverse-complemented guide); the 8-nt guide at offset
\* 90 of the 200-nt forward-strand region gives 95.
C7_CutsiteOffset ==
    CutsiteSet =>
        /\ GuideOccurrences # {}
        /\ cutsite = IF rev THEN Least(GuideOccurrences) + 3
                            ELSE Least(GuideOccurrences) + Len(sgrna) - 3
        /\ (target_region = ExampleRegion => cutsite = 95)

\* C7 witness: a reverse-strand locus whose guide is found past offset 0.
C7_Witness ==
    /\ CutsiteSet
    /\ rev
    /\ Least(GuideOccurrences) > 0
    /\ cutsite = Least(GuideOccurrences) + 3

\* C8: every region that contains the strand-oriented guide as an exact
\* substring, also one ending at the last or second-to-last base, gets a
\* cutsite rather than the fatal error.
C8_FindsEveryOccurrence ==
    (pc # "cutsite_search" /\ GuideOccurrences # {}) => pc # "SystemExit"

\* C9 as stated: the search is fatal whenever the guide does not occur
\* exactly once (zero times, or two or more times).
C9_FatalUnlessExactlyOnce ==
    (pc # "cutsite_search" /\ Cardinality(GuideOccurrences) # 1)
        => pc = "SystemExit"

\* C9 amended: the search is fatal, with no cutsite set, when the guide occurs
\* zero times, and exactly when no occurrence lies in the scanned range; a
\* guide occurring two or more times is no error, the leftmost scanned
\* occurrence sets the cutsite.
C9_FatalWhenAbsent ==
    pc # "cutsite_search" =>
        /\ (GuideOccurrences = {} => pc = "SystemExit")
        /\ (pc = "SystemExit" <=> GuideScanned = {})
        /\ (pc = "SystemExit" => cutsite = None)
        /\ (Cardinality(GuideScanned) >= 2 =>
               /\ CutsiteSet
               /\ cutsite = IF rev THEN Least(GuideScanned) + 3
                                   ELSE Least(GuideScanned) + Len(sgrna) - 3)

\* C9 witness: the guide occurs twice and the search returned a cutsite.
C9_Witness ==
    /\ CutsiteSet
    /\ Cardinality(GuideOccurrences) >= 2
    /\ Cardinality(GuideScanned) >= 2

-----------------------------------------------------------------------------
(* Properties of the index resolver                                        *)

\* The sum of the counters of a dictionary.
RECURSIVE Total(_)
Total(d) ==
    IF DOMAIN d = {} THEN 0
    ELSE LET k == CHOOSE x \in DOMAIN d : TRUE
         IN  d[k] + Total([x \in DOMAIN d \ {k} |-> d[x]])

\* The manifest positions whose two mismatch counts for the read last
\* matched are both within the platform threshold.
WithinThreshold ==
    LET limit == IF Platform = "Illumina" THEN 1 ELSE 3
    IN  {i \in 1..Len(index_dict) :
            /\ left_match(index_dict[i], ret.read1, ret.read2) <= limit
            /\ right_match(index_dict[i], ret.read1) <= limit}

MismatchSum(i) ==
    left_match(index_dict[i], ret.read1, ret.read2)
    + right_match(index_dict[i], ret.read1)

\* index_matching was called and returned.
Returned == read_count > 0 /\ ~ret.raised

\* C4: index_matching is first-match: a match is reported exactly when some
\* index has both mismatch counts within the threshold (1 Illumina, 3
\* Ramsden), and the index returned is the first such index in manifest
\* order, whatever the mismatch counts of later ones.
C4_FirstMatchInManifestOrder ==
    (Returned /\ Platform \in {"Illumina", "Ramsden"}) =>
        /\ ret.match_found <=> WithinThreshold # {}
        /\ ret.match_found =>
               ret.index_key = index_dict[Least(WithinThreshold)].name

\* C4 witness: two indices are within the threshold, the later one with
\* strictly fewer mismatches, and the earlier one was returned.
C4_Witness ==
    /\ Returned
    /\ ret.match_found
    /\ \E j \in WithinThreshold :
          /\ j > Least(WithinThreshold)
          /\ MismatchSum(j) < MismatchSum(Least(WithinThreshold))
    /\ ret.index_key = index_dict[Least(WithinThreshold)].name

\* C5: with a non-empty manifest and no index within the threshold,
\* index_matching returns 'unidentified' as the index identifier, with
\* match_found = False.
C5_UnidentifiedSentinel ==
    (Returned /\ Len(index_dict) > 0 /\ WithinThreshold = {}) =>
        /\ ret.match_found = FALSE
        /\ ret.index_key = "unidentified"

\* C6: each call of index_matching that returns adds one to exactly one
\* counter, that of the matched index or 'unidentified', no counter is
\* removed or otherwise changed, and the counters then sum to read_count.
C6_OneCounterPerRead ==
    [][(read_count' = read_count + 1 /\ ~ret'.raised) =>
          LET k == IF ret'.match_found THEN ret'.index_key ELSE "unidentified"
          IN  /\ k \in DOMAIN read_count_dict'
              /\ read_count_dict'[k] = Get(read_count_dict, k) + 1
              /\ DOMAIN read_count_dict \subseteq DOMAIN read_count_dict'
              /\ \A j \in DOMAIN read_count_dict' \ {k} :
                    read_count_dict'[j] = Get(read_count_dict, j)
              /\ Total(read_count_dict') = read_count']_vars

\* C6 witness: demultiplexing ended after reads counted for an index and
\* reads counted as unidentified.
C6_Witness ==
    /\ dpc = "eof"
    /\ read_count >= 2
    /\ Get(read_count_dict, "unidentified") >= 1
    /\ \E k \in DOMAIN read_count_dict : k # "unidentified" /\ read_count_dict[k] >= 1
    /\ Total(read_count_dict) = read_count


-----------------------------------------------------------------------------
(* Properties of the frequency and raw data reports                        *)

\* frequency_output has written its rows.
Reported == pc \in {"raw_data_output", "done"}

\* The ordered list of labels and their conditions.
OrderedLabels(tag, del_size, microhomology_size, ins_size) ==
    << <<tag = "HR", "HR">>,
       <<del_size >= 4 /\ microhomology_size >= 2, "TsEJ">>,
       <<del_size < 4 /\ ins_size < 5, "NHEJ">>,
       <<del_size >= 4 /\ microhomology_size < 2 /\ ins_size < 5, "Non-MH Deletion">>,
       <<ins_size >= 5, "Insertion">>,
       <<TRUE, "Other">> >>

\* The label of the first condition of an ordered list that holds.
FirstMatch(list) ==
    list[Least({k \in 1..Len(list) : list[k][1]})][2]

\* C1: every row of the frequency report carries the label of the first
\* condition that its entry (tag, del_size, microhomology_size, ins_size)
\* meets in the order HR, TsEJ, NHEJ, Non-MH Deletion, Insertion, Other; one
\* row, and so one label, per entry of the table.
C1_FirstMatchingLabel ==
    Reported =>
        /\ Len(freq_rows) = Len(results_freq_dict)
        /\ \A k \in 1..Len(freq_rows) :
              freq_rows[k].scar_type =
                  FirstMatch(OrderedLabels(results_freq_dict[k].sub.tag,
                                           freq_rows[k].del_size,
                                           freq_rows[k].microhomology_size,
                                           freq_rows[k].ins_size))

\* A deletion of 6 with 3 nt of microhomology and a 5-nt insertion is
\* reported as TsEJ, next to a row of another label.
C1_Witness ==
    /\ Reported
    /\ \E k \in 1..Len(freq_rows) :
          /\ freq_rows[k].del_size = 6
          /\ freq_rows[k].microhomology_size = 3
          /\ freq_rows[k].ins_size >= 5
          /\ freq_rows[k].scar_type = "TsEJ"
    /\ \E k \in 1..Len(freq_rows) : freq_rows[k].scar_type = "Insertion"

\* C2: in every row of the frequency report and of the raw data report the
\* deletion size is the reported left deletion length + the reported right
\* deletion length + the microhomology length and is not negative; for a
\* 3' strand guide the reported left length is the call's right length and
\* the reported right length the call's left length.
C2_DeletionSizeIsSum ==
    /\ \A k \in 1..Len(freq_rows) :
          LET r == freq_rows[k]
              c == results_freq_dict[k].sub
          IN  /\ r.del_size = r.lft_del + r.rt_del + Len(r.microhomology)
              /\ r.microhomology_size = Len(r.microhomology)
              /\ r.del_size >= 0
              /\ r.lft_del = Len(IF rev THEN c.rt_del ELSE c.lft_del)
              /\ r.rt_del = Len(IF rev THEN c.lft_del ELSE c.rt_del)
    /\ \A k \in 1..Len(raw_rows) :
          LET r == raw_rows[k]
          IN  /\ r.del_size = r.lft_del + r.rt_del + Len(r.microhomology)
              /\ r.del_size >= 0

\* Both reports of a 3' strand locus hold a row whose left and right
\* deletions differ in length.
C2_Witness ==
    /\ pc = "done"
    /\ rev
    /\ \E k \in 1..Len(freq_rows) :
          /\ freq_rows[k].lft_del # freq_rows[k].rt_del
          /\ freq_rows[k].microhomology_size > 0
    /\ \E k \in 1..Len(raw_rows) : raw_rows[k].lft_del # raw_rows[k].rt_del

-----------------------------------------------------------------------------
(* Properties of the frequency table                                       *)

\* The tuple a Scar Call is counted under.
Tuple(c) == <<c.lft_del, c.rt_del, c.insertion, c.mh, c.tag>>

\* The reads classified so far that gave the tuple t.
ReadsWith(t) ==
    Cardinality({k \in 1..Len(read_results_list) :
                    Tuple(read_results_list[k]) = t})

RECURSIVE SumOfCounts(_, _)
SumOfCounts(d, i) ==
    IF i > Len(d) THEN 0 ELSE d[i].count + SumOfCounts(d, i + 1)

\* C3: the frequency table holds one entry per distinct tuple (left
\* deletion, right deletion, insertion, microhomology, tag) among the calls
\* made so far, the count of an entry is the number of reads that gave its
\* tuple, and the counts add up to the number of reads for which the
\* classifier returned a call: the reads that passed the filters less those
\* with no junction and those with no cut.
C3_OneEntryPerTuple ==
    /\ \A i, j \in 1..Len(results_freq_dict) :
          Tuple(results_freq_dict[i].sub) = Tuple(results_freq_dict[j].sub)
              => i = j
    /\ {Tuple(results_freq_dict[i].sub) : i \in 1..Len(results_freq_dict)}
           = {Tuple(read_results_list[k]) : k \in 1..Len(read_results_list)}
    /\ \A i \in 1..Len(results_freq_dict) :
          results_freq_dict[i].count = ReadsWith(Tuple(results_freq_dict[i].sub))
    /\ SumOfCounts(results_freq_dict, 1) = Len(read_results_list)
    /\ SumOfCounts(results_freq_dict, 1)
           = summary_data.s1 - summary_data.s6[1] - summary_data.s6[2]

\* Three reads were classified: two gave one tuple, the third another.
C3_Witness ==
    /\ Len(read_results_list) = 3
    /\ Len(results_freq_dict) = 2
    /\ \E i \in 1..2 : results_freq_dict[i].count = 2

-----------------------------------------------------------------------------
(* Properties of the consensus builder                                     *)

\* No 7-nt window of the left read that starts beyond offset 25 equals a
\* 7-nt window of the reverse complement of the right read that ends
\* before len(right) - 25.
NoOverlap(seq) ==
    LET left_seq == seq[1]
        rt_seq   == rcomp(seq[2])
    IN  ~ \E l \in 26..(Len(left_seq) - 7), r \in 7..(Len(seq[2]) - 26) :
              SubSeq(left_seq, l + 1, l + 7) = SubSeq(rt_seq, r - 6, r)

\* C10: when the loop takes a read pair without such an overlap, as every
\* pair with a left read of 32 nt or less is, simple_consensus gives the
\* empty string, the iteration adds one to summary_data[7][1] and changes
\* nothing else, and sliding_window is not called for the pair.
C10_NoOverlapFailsConsensus ==
    [][(/\ ~PEAR
        /\ loop_count' = loop_count + 1
        /\ (\/ NoOverlap(sequence_list[loop_count'])
            \/ Len(sequence_list[loop_count'][1]) <= 32))
       => /\ simple_consensus(sequence_list[loop_count'][1],
                              sequence_list[loop_count'][2]) = <<>>
          /\ last_read'.consensus = <<>>
          /\ ~last_read'.classified
          /\ summary_data' =
                 [summary_data EXCEPT !.s7 = <<@[1], @[2] + 1>>]
          /\ read_results_list' = read_results_list
          /\ results_freq_dict' = results_freq_dict]_vars

\* A pair with a 32-nt left read and then a pair of longer reads that
\* overlap only outside the bounds have both failed, and nothing else is
\* counted.
C10_Witness ==
    /\ ~PEAR
    /\ loop_count = 2
    /\ Len(sequence_list[1][1]) <= 32
    /\ Len(sequence_list[2][1]) > 32
    /\ NoOverlap(sequence_list[2])
    /\ summary_data = [InitSummary EXCEPT !.s7 = <<0, 2>>]
    /\ read_results_list = <<>>

-----------------------------------------------------------------------------
(* Properties of the per-read filters                                      *)

\* C11: a read with a consensus is kept from the classifier exactly when
\* the N fraction of its consensus is greater than N_Limit or the consensus
\* is shorter than Minimum_Length; a consensus of exactly Minimum_Length
\* with no more N than the limit is classified.
C11_RejectedExactlyWhenOverLimitOrShorter ==
    (loop_count > 0 /\ last_read.consensus # <<>>) =>
        (~last_read.classified
            <=> \/ CountN(last_read.consensus) * N_Limit[2]
                       > N_Limit[1] * Len(last_read.consensus)
                \/ Len(last_read.consensus) < Minimum_Length)

\* C12: an iteration that keeps its read from the classifier adds one to
\* exactly one of the two filter counters and leaves the other, the passing
\* count, every other summary field, the frequency table and the raw results
\* list as they were, and the loop goes on; after every iteration the
\* passing count and the two filter counters add up to the reads taken.
C12_FilteredReadCountsOnce ==
    [][(loop_count' = loop_count + 1) =>
          /\ ~last_read'.classified =>
                /\ \/ summary_data' =
                          [summary_data EXCEPT !.s7 = <<@[1] + 1, @[2]>>]
                   \/ summary_data' =
                          [summary_data EXCEPT !.s7 = <<@[1], @[2] + 1>>]
                /\ results_freq_dict' = results_freq_dict
                /\ read_results_list' = read_results_list
                /\ pc' = "reads"
          /\ summary_data'.s1 + summary_data'.s7[1] + summary_data'.s7[2]
                 = loop_count']_vars

\* Three merged reads, one without a consensus, one rich in N and one too
\* short, were all filtered.
C12_Witness ==
    /\ PEAR
    /\ loop_count = 3
    /\ summary_data.s7 = <<2, 1>>
    /\ summary_data.s1 = 0
    /\ \E k \in 1..3 : CountN(sequence_list[k]) > 0
    /\ \E k \in 1..3 : sequence_list[k] = Fragment

-----------------------------------------------------------------------------
(* Properties of the reported frequencies                                  *)

\* The denominator of the normalized fractions of the corpus summary:
\* passing reads less no-junction reads less no-cut reads (line 1130).
Cut(sd) == sd.s1 - sd.s6[1] - sd.s6[2]

\* C13: the frequency of every row of the frequency report is the count of
\* the row divided by the passing reads less the no-junction reads less the
\* no-cut reads of the library.
C13_FrequencyOverCutReads ==
    Reported =>
        \A k \in 1..Len(freq_rows) :
            /\ Cut(summary_data) # 0
            /\ freq_rows[k].key_frequency.num * Cut(summary_data)
                   = freq_rows[k].key_count * freq_rows[k].key_frequency.den

-----------------------------------------------------------------------------
(* Properties of the platform check                                        *)

\* C19: with a platform other than Illumina and Ramsden and a manifest that
\* is not empty, the first read taken ends the run in the fatal
\* configuration error (the logged message and SystemExit 1).
C19_UnknownPlatformIsFatalConfigError ==
    (/\ Platform \notin {"Illumina", "Ramsden"}
     /\ index_dict # <<>>
     /\ read_count >= 1)
        => dpc = "SystemExit"

-----------------------------------------------------------------------------
(* Properties of the consensus that was built                              *)

\* The ends e (in the left read) and m (in the reverse complement of the
\* right read) of the equal 7-nt windows inside the search bounds.
OverlapEnds(seq) ==
    {em \in (33..Len(seq[1])) \X (7..(Len(seq[2]) - 26)) :
        SubSeq(seq[1], em[1] - 6, em[1])
            = SubSeq(rcomp(seq[2]), em[2] - 6, em[2])}

\* The overlap the search meets first: the rightmost window of the left
\* read that has an equal, and its leftmost equal.
FirstOverlap(seq) ==
    CHOOSE em \in OverlapEnds(seq) :
        \A o \in OverlapEnds(seq) :
            \/ o[1] < em[1]
            \/ o[1] = em[1] /\ em[2] <= o[2]

\* C20: the consensus built from an overlap whose window ends at e in the
\* left read and at m in the reverse complement of the right read is
\* left[0:e] + rc_right[m:].
C20_ConsensusJoinsAtTheWindow ==
    (/\ ~PEAR
     /\ loop_count > 0
     /\ OverlapEnds(last_read.seq) # {})
        => last_read.consensus =
               PySlice(last_read.seq[1], 0, FirstOverlap(last_read.seq)[1])
               \o PySlice(rcomp(last_read.seq[2]),
                          FirstOverlap(last_read.seq)[2],
                          Len(last_read.seq[2]))

-----------------------------------------------------------------------------
(* Properties of the rows of the two reports                               *)

IsAltered(c) ==
    Len(c.lft_del) + Len(c.rt_del) + Len(c.mh) > 0 \/ Len(c.insertion) > 0

\* The classified reads that have a deletion or an insertion, in read order.
AlteredReads == SelectSeq(read_results_list, IsAltered)

-----------------------------------------------------------------------------
(* Properties of the index dictionary                                      *)

\* The identifiers of the first n rows of the manifest.
RowNames(n) == {sample_index_list[k][1] : k \in 1..n}

\* C18: a manifest row whose index identifier an earlier row has already
\* used ends dictionary_build in SystemExit at that row, with nothing
\* stored for it; and the dictionary that is returned has one entry per
\* manifest row, in manifest order, with pairwise distinct identifiers.
C18_DuplicateIndexIsFatal ==
    [][/\ (/\ dpc = "dictionary_build"
           /\ Len(index_dict) < Len(sample_index_list)
           /\ sample_index_list[Len(index_dict) + 1][1] \in RowNames(Len(index_dict)))
          => /\ dpc' = "SystemExit"
             /\ index_dict' = index_dict
       /\ dpc' = "built"
          => /\ Len(index_dict') = Len(sample_index_list)
             /\ \A k \in 1..Len(index_dict') :
                   index_dict'[k].name = sample_index_list[k][1]
             /\ \A j, k \in 1..Len(index_dict') :
                   index_dict'[j].name = index_dict'[k].name => j = k]_vars

\* A manifest of three rows, the third repeating the identifier of the
\* first, was given up at its third row.
C18_Witness ==
    /\ dpc = "SystemExit"
    /\ Len(sample_index_list) = 3
    /\ Len(index_dict) = 2
    /\ Len(sample_index_list[3]) = 5
    /\ sample_index_list[3][1] = sample_index_list[1][1]
    /\ sample_index_list[3] # sample_index_list[1]

-----------------------------------------------------------------------------
(* Properties of the corpus summary                                        *)

\* The fractions of a library row whose denominator is zero read 'nan'.
ZeroDenominatorsAreNaN(row) ==
    /\ row.passing_filters = 0 =>
          /\ row.cut_fraction = NaN
          /\ HR_Donor => row.hr_frequency = <<NaN>>
    /\ row.cut = 0 =>
          /\ row.microhomology_fraction = NaN
          /\ row.tmej_fraction = NaN
          /\ row.nhej_fraction = NaN
          /\ row.non_mh_del_fraction = NaN
          /\ row.large_ins_fraction = NaN

\* C14: writing the summary never fails with a division error, and in every
\* library row a derived fraction over a zero denominator (the cut fraction,
\* the normalized pathway fractions, the HR fraction of a library without
\* passing reads when an HR donor is configured) is the not-a-number marker.
C14_ZeroDenominatorIsNaNNotACrash ==
    /\ dpc # "ZeroDivisionError"
    /\ dpc = "finished" =>
          \A i \in 1..Len(summary_rows.libraries) :
             ZeroDenominatorsAreNaN(summary_rows.libraries[i])

\* C15: a run that reaches data_output ends its summary with exactly one
\* Unidentified row carrying the number of reads that matched no index, 0
\* when every read matched one; it does not fail for want of such reads.
C15_OneUnidentifiedRow ==
    /\ dpc # "KeyError"
    /\ dpc = "finished" =>
          /\ Len(summary_rows.unidentified) = 1
          /\ summary_rows.unidentified[1].count = Get(read_count_dict, "unidentified")


-----------------------------------------------------------------------------
(* Properties of the window map                                            *)

\* window_mapping has returned.
WindowsMapped == pc \notin {"idle", "cutsite_search", "window_mapping", "SystemExit"}

\* The n bases of region from 0-based offset a on, all of them inside it.
Inside(region, a, n) == a >= 0 /\ a + n <= Len(region)

Segment(region, a, n) == [k \in 1..n |-> region[a + k]]

\* C26: after window_mapping lower_limit is 15 and upper_limit is the region
\* length less 15; there are max(0, cutsite - 15) left windows and
\* max(0, length - 15 - cutsite) right windows; window i (from 0) on the left
\* is region[cutsite-10-i : cutsite-i], on the right
\* region[cutsite+i : cutsite+10+i]; each is 10 nt long and inside the region.
C26_WindowMap ==
    WindowsMapped =>
        /\ target_length = Len(target_region)
        /\ lower_limit = 15
        /\ upper_limit = Len(target_region) - 15
        /\ Len(left_target_windows) = Max(0, cutsite - 15)
        /\ Len(right_target_windows) = Max(0, Len(target_region) - 15 - cutsite)
        /\ \A i \in 0..(Len(left_target_windows) - 1) :
              /\ Inside(target_region, cutsite - 10 - i, 10)
              /\ left_target_windows[i + 1] = Segment(target_region, cutsite - 10 - i, 10)
        /\ \A i \in 0..(Len(right_target_windows) - 1) :
              /\ Inside(target_region, cutsite + i, 10)
              /\ right_target_windows[i + 1] = Segment(target_region, cutsite + i, 10)

\* C26 witness: a mapped locus with windows on both sides of the cutsite.
C26_Witness ==
    /\ WindowsMapped
    /\ Len(left_target_windows) > 1
    /\ Len(right_target_windows) > 1


-----------------------------------------------------------------------------
(* Properties of the read loop of demultiplex                              *)

\* The platforms index_matching knows (lines 1021, 1036).
KnownPlatform == Platform \in {"Illumina", "Ramsden"}

\* An iteration that stays in the loop took the first read of each stream
\* and passed that pair to index_matching, counting it once; the iteration
\* that leaves the loop at the end of a stream counts nothing and calls
\* nothing.
PairsInInputOrder ==
    (dpc = "demultiplex" /\ ~PEAR) =>
        /\ dpc' = "demultiplex" =>
              /\ fastq1 # <<>> /\ fastq2 # <<>>
              /\ fastq1' = Tail(fastq1) /\ fastq2' = Tail(fastq2)
              /\ read_count' = read_count + 1
              /\ ret'.read1 = Head(fastq1) /\ ret'.read2 = <<Head(fastq2)>>
        /\ dpc' = "eof" =>
              /\ fastq1 = <<>> \/ fastq2 = <<>>
              /\ read_count' = read_count
              /\ read_count_dict' = read_count_dict

-----------------------------------------------------------------------------
(* Properties of the job submission                                        *)

\* The libraries of the manifest that received a read.
LibrariesWithReads ==
    {index_dict[i].name : i \in {j \in 1..Len(index_dict) :
                                    Get(read_count_dict, index_dict[j].name) >= 1}}

\* C21: main_loop submits exactly one job per library that received at
\* least one read, each with all reads of its library, and the jobs are in
\* order of non-increasing read count, the largest library first.
C21_OneJobPerLibraryLargestFirst ==
    dpc = "starmap" =>
        /\ \A i, j \in 1..Len(data_list) : i # j => data_list[i].key # data_list[j].key
        /\ {data_list[i].key : i \in 1..Len(data_list)} = LibrariesWithReads
        /\ \A i \in 1..Len(data_list) :
              /\ Len(data_list[i].items) = Get(read_count_dict, data_list[i].key)
              /\ \A j \in 1..Len(data_list) :
                    i < j => Len(data_list[i].items) >= Len(data_list[j].items)

\* C21 witness: two libraries; the one of the last read has two reads and
\* is submitted first.
C21_Witness ==
    /\ dpc = "starmap"
    /\ Len(data_list) = 2
    /\ Len(data_list[1].items) = 2
    /\ Len(data_list[2].items) = 1
    /\ data_list[1].key = ret.index_key


-----------------------------------------------------------------------------
(* Properties of the worker pool                                           *)

AllReturned == \A i \in 1..Len(pool) : pool[i].status = "returned"

\* The read loop has met the end of a stream.
StreamsExhausted == fastq1 = <<>> \/ (~PEAR /\ fastq2 = <<>>)

\* The summary file has its rows: one per job, in the order of data_list,
\* each from the summary its job returned.
RowsOfReturnedJobs ==
    /\ Len(summary_rows.libraries) = Len(data_list)
    /\ \A i \in 1..Len(data_list) :
          /\ summary_rows.libraries[i].index_name = data_list[i].key
          /\ summary_data_list[i].index_name = data_list[i].key
          /\ summary_rows.libraries[i].passing_filters = summary_data_list[i].summary_data.s1

\* Demultiplexing and the jobs are disjoint phases, a summary row exists
\* only when every job has returned.
SummaryAfterAllJobs ==
    /\ dpc \in {"demultiplex", "eof"} =>
          /\ pool = <<>> /\ pc = "idle" /\ data_list = <<>>
          /\ summary_rows = NoSummary
    /\ dpc = "starmap" => summary_rows = NoSummary
    /\ dpc \notin {"demultiplex", "eof"} => StreamsExhausted \/ ~KnownPlatform
    /\ summary_rows # NoSummary => AllReturned /\ RowsOfReturnedJobs

\* A step that enters data_output is taken when demultiplexing is over and
\* every submitted job has returned its summary.
DataOutputBlocks ==
    (dpc = "starmap" /\ dpc' # "starmap") =>
        /\ StreamsExhausted
        /\ sequence_dict = <<>>
        /\ Len(pool) = Len(data_list)
        /\ AllReturned
        /\ pc = "idle"
        /\ Len(summary_data_list) = Len(data_list)

\* C22: for one or more worker processes and any interleaving of them,
\* data_output starts only after demultiplexing has ended and every
\* submitted job has returned its summary; no summary row comes from a
\* library that is still being processed.
C22_SummaryOnlyAfterAllJobs ==
    /\ []SummaryAfterAllJobs
    /\ [][DataOutputBlocks]_dpc

\* C22 witness: two worker processes; the second job has returned while the
\* first is still in its read loop, and no summary row is written.
C22_Witness ==
    /\ dpc = "starmap"
    /\ Spawn = 2
    /\ Len(pool) = 2
    /\ pool[2].status = "returned"
    /\ pool[1].status = "waiting"
    /\ pool[1].state[1].pc = "reads"
    /\ summary_rows = NoSummary



-----------------------------------------------------------------------------
(* Properties of frequency_output: labels and pathway counters             *)

\* Largest deletion, microhomology and insertion size of the label check.
MaxSize == 6

\* frequency_output has run for the library.
FrequencyWritten == pc \in {"raw_data_output", "done"}

\* C27: the 'Other' bucket is unreachable.  No tag and no deletion,
\* microhomology and insertion size takes the if/elif chain of
\* frequency_output to 'Other'; once frequency_output has run, no row of the
\* frequency file is labelled 'Other' and junction_type_data[3], which
\* data_output reports as the 'Other Scar Type' count of the library, is 0.
C27_OtherUnreachable ==
    /\ \A tag \in {"", "HR"} :
          \A del_size \in 0..MaxSize, microhomology_size \in 0..MaxSize,
             ins_size \in 0..MaxSize :
             scar_type(tag, del_size, microhomology_size, ins_size) # "Other"
    /\ FrequencyWritten =>
          /\ summary_data.s8[4] = 0
          /\ \A i \in 1..Len(freq_rows) : freq_rows[i].scar_type # "Other"

\* An entry with a deletion of 4 nt, no microhomology and a 5-nt insertion
\* has been labelled: the last elif of the chain took it.
C27_Witness ==
    /\ FrequencyWritten
    /\ \E i \in 1..Len(freq_rows) :
          /\ freq_rows[i].del_size >= 4
          /\ freq_rows[i].microhomology_size < 2
          /\ freq_rows[i].ins_size = 5
          /\ freq_rows[i].scar_type = "Insertion"
    /\ summary_data.s8[3] >= 1


\* The counter a label belongs to, 1-based as in summary_data[8]: TsEJ,
\* NHEJ, large insertion, other, non-MH deletion.
PathwayCounter(label) ==
    CASE label = "TsEJ"            -> 1
      [] label = "NHEJ"            -> 2
      [] label = "Insertion"       -> 3
      [] label = "Other"           -> 4
      [] label = "Non-MH Deletion" -> 5
      [] OTHER                     -> 0

\* The reads of the entries i.. of the frequency table that are not tagged
\* HR and whose row is labelled for counter k; for k = 0, of all that are not
\* tagged HR.
RECURSIVE EntryReads(_, _)
EntryReads(i, k) ==
    IF i > Len(results_freq_dict) THEN 0
    ELSE (IF /\ results_freq_dict[i].sub.tag # "HR"
             /\ k # 0 => PathwayCounter(freq_rows[i].scar_type) = k
          THEN results_freq_dict[i].count ELSE 0)
         + EntryReads(i + 1, k)

\* C28: after frequency_output the five pathway counters of summary_data[8]
\* sum to the reads of the entries not tagged HR.  An entry tagged HR is
\* labelled 'HR' and adds to no counter; every other entry has the label of
\* exactly one counter and adds its full count to that one.
C28_PathwayCountersPartitionNonHR ==
    FrequencyWritten =>
        /\ Len(freq_rows) = Len(results_freq_dict)
        /\ summary_data.s8[1] + summary_data.s8[2] + summary_data.s8[3]
               + summary_data.s8[4] + summary_data.s8[5] = EntryReads(1, 0)
        /\ \A k \in 1..5 : summary_data.s8[k] = EntryReads(1, k)
        /\ \A i \in 1..Len(results_freq_dict) :
              /\ results_freq_dict[i].sub.tag = "HR" <=> freq_rows[i].scar_type = "HR"
              /\ results_freq_dict[i].sub.tag # "HR" =>
                     PathwayCounter(freq_rows[i].scar_type) \in 1..5

\* The table holds an entry tagged HR and an entry that is not, of one read
\* each.
C28_Witness ==
    /\ FrequencyWritten
    /\ \E i, j \in 1..Len(results_freq_dict) :
          /\ results_freq_dict[i].sub.tag = "HR"
          /\ results_freq_dict[j].sub.tag # "HR"
    /\ EntryReads(1, 0) = 1
    /\ summary_data.s1 = 2


-----------------------------------------------------------------------------
(* Properties of the reporting of a reverse-strand locus                   *)

\* The lengths and junctions of a Scar Call as the classifier made it.
Native(sub) ==
    [lft_del |-> Len(sub.lft_del), rt_del |-> Len(sub.rt_del),
     con_lft |-> sub.con_lft, con_rt |-> sub.con_rt,
     ref_lft |-> sub.ref_lft, ref_rt |-> sub.ref_rt]

\* The mapping of the claim for a consensus of Lc nt and a region of Lt nt.
ReverseMap(v, Lc, Lt) ==
    [lft_del |-> v.rt_del, rt_del |-> v.lft_del,
     con_lft |-> Lc - v.con_rt, con_rt |-> Lc - v.con_lft,
     ref_lft |-> Lt - v.ref_rt, ref_rt |-> Lt - v.ref_lft]

\* The lengths and junctions a row of either report carries.
RowValues(row) ==
    [lft_del |-> row.lft_del, rt_del |-> row.rt_del,
     con_lft |-> row.consensus_lft_junction, con_rt |-> row.consensus_rt_junction,
     ref_lft |-> row.ref_lft_junction, ref_rt |-> row.ref_rt_junction]

\* What the claim has a report carry for the call sub.
Mapped(sub) ==
    IF rev
    THEN ReverseMap(Native(sub), Len(sub.consensus), Len(target_region))
    ELSE Native(sub)

\* C25: a row of the frequency file carries, for a reverse-strand locus, the
\* deletion lengths exchanged and the junctions mirrored (left = L - native
\* right, right = L - native left, L the consensus length or the target
\* length), and for a forward-strand locus the native values.  The mapping
\* keeps right - left and left <= right, applied twice it gives the native
\* values, and the raw data file carries for every read the values the
\* frequency file carries for its call.
C25_ReverseStrandReporting ==
    /\ FrequencyWritten =>
          \A i \in 1..Len(freq_rows) :
             LET sub == results_freq_dict[i].sub
                 got == RowValues(freq_rows[i])
                 Lc  == Len(sub.consensus)
                 Lt  == Len(target_region)
             IN  /\ got = Mapped(sub)
                 /\ got.con_rt - got.con_lft = sub.con_rt - sub.con_lft
                 /\ got.ref_rt - got.ref_lft = sub.ref_rt - sub.ref_lft
                 /\ sub.con_lft <= sub.con_rt => got.con_lft <= got.con_rt
                 /\ sub.ref_lft <= sub.ref_rt => got.ref_lft <= got.ref_rt
                 /\ ReverseMap(ReverseMap(Native(sub), Lc, Lt), Lc, Lt) = Native(sub)
    /\ pc = "done" =>
          /\ Len(raw_rows) = Len(read_results_list)
          /\ \A k \in 1..Len(raw_rows) :
                LET i == KeyIndex(results_freq_dict,
                                  freq_key_of(read_results_list[k]))
                IN  /\ i # 0
                    /\ RowValues(raw_rows[k]) = RowValues(freq_rows[i])
                    /\ RowValues(raw_rows[k]) = Mapped(read_results_list[k])

\* Both reports of a reverse-strand locus are written for a call that lost
\* 4 nt left and 1 nt right of the cutsite.
C25_Witness ==
    /\ pc = "done"
    /\ rev
    /\ raw_rows # <<>>
    /\ \E i \in 1..Len(freq_rows) :
          /\ Len(results_freq_dict[i].sub.lft_del) = 4
          /\ Len(results_freq_dict[i].sub.rt_del) = 1
          /\ freq_rows[i].lft_del = 1
          /\ freq_rows[i].rt_del = 4
          /\ freq_rows[i].ref_lft_junction # results_freq_dict[i].sub.ref_lft


-----------------------------------------------------------------------------
(* Properties of templated_insertion_search                                *)

\* The largest member of a set of integers that is not empty.
Largest(S) == CHOOSE x \in S : \A y \in S : y <= x

\* The queries of the left and of the right search for an insertion.
LeftQueries(insertion) ==
    {rcomp(PySlice(insertion, 0, 5)), PySlice(insertion, -5, Len(insertion))}

RightQueries(insertion) ==
    {PySlice(insertion, 0, 5), rcomp(PySlice(insertion, -5, Len(insertion)))}

\* A segment as the search returns it: reverse-complemented for a 3' strand
\* guide, as the target region of the report is.
AsReturned(segment) == IF rev THEN rcomp(segment) ELSE segment

\* The right edges, from the junction down to junction - 49, of the 5-nt
\* windows inside the region that equal a left query.
LeftHits(insertion, junction) ==
    {rt \in (junction - 49)..junction :
        /\ Inside(target_region, rt - 5, 5)
        /\ Segment(target_region, rt - 5, 5) \in LeftQueries(insertion)}

\* The left edges, from the junction up to junction + 49, of the 5-nt windows
\* inside the region that equal a right query.
RightHits(insertion, junction) ==
    {lft \in junction..(junction + 49) :
        /\ Inside(target_region, lft, 5)
        /\ Segment(target_region, lft, 5) \in RightQueries(insertion)}

NearestLeft(insertion, junction) ==
    IF LeftHits(insertion, junction) = {} THEN <<>>
    ELSE AsReturned(Segment(target_region,
                          Largest(LeftHits(insertion, junction)) - 5, 5))

NearestRight(insertion, junction) ==
    IF RightHits(insertion, junction) = {} THEN <<>>
    ELSE AsReturned(Segment(target_region,
                          Least(RightHits(insertion, junction)), 5))

\* The rows of the frequency file templated_insertion_search was called for.
InsertionRows == {i \in 1..Len(freq_rows) : freq_rows[i].scar_type = "Insertion"}

\* C23: for the insertion and the junctions frequency_output calls it with,
\* templated_insertion_search returns on the left the window nearest the
\* left junction, of those whose right edge is from the junction down to
\* junction - 49 and that equal a left query, on the right the window
\* nearest the right junction, of those whose left edge is from the junction
\* up to junction + 49 and that equal a right query, and the empty string
\* where there is none; a window that is not inside the region never
\* matches; the left result is the same for any other right junction, the
\* right result for any other left junction.
C23_TemplatesFromWindowsInRange ==
    FrequencyWritten =>
        \A i \in InsertionRows :
           LET row == freq_rows[i]
               lft == row.ref_lft_junction
               rt  == row.ref_rt_junction
           IN  /\ row.lft_template = NearestLeft(row.insertion, lft)
               /\ row.rt_template = NearestRight(row.insertion, rt)
               /\ \A other \in {0, rt + 7, Len(target_region)} :
                     templated_insertion_search(row.insertion, lft, other)[1]
                         = row.lft_template
               /\ \A other \in {0, lft - 7, Len(target_region)} :
                     templated_insertion_search(row.insertion, other, rt)[2]
                         = row.rt_template


\* The first of the slices target_region[rt - 5 : rt], rt from the junction
\* down while rt > lower, that is one of queries, as the search returns it.
RECURSIVE FirstLeft(_, _, _)
FirstLeft(rt, lower, queries) ==
    IF ~(rt > lower) THEN <<>>
    ELSE IF PySlice(target_region, rt - 5, rt) \in queries
         THEN AsReturned(PySlice(target_region, rt - 5, rt))
         ELSE FirstLeft(rt - 1, lower, queries)

\* The first of the slices target_region[lft : lft + 5], lft from the
\* junction up while lft < upper, that is one of queries.
RECURSIVE FirstRight(_, _, _)
FirstRight(lft, upper, queries) ==
    IF ~(lft < upper) THEN <<>>
    ELSE IF PySlice(target_region, lft, lft + 5) \in queries
         THEN AsReturned(PySlice(target_region, lft, lft + 5))
         ELSE FirstRight(lft + 1, upper, queries)

\* The four queries: the first and the last 5 nt of the insertion and the
\* reverse complement of each.
FourQueries(insertion) == LeftQueries(insertion) \cup RightQueries(insertion)

\* C24 as claimed: in each direction the template is the first slice the
\* scan comes to that equals any of the four queries.
C24_AnyOfFourQueries ==
    FrequencyWritten =>
        \A i \in InsertionRows :
           LET row == freq_rows[i]
           IN  /\ row.lft_template =
                      FirstLeft(row.ref_lft_junction, row.ref_lft_junction - 50,
                                FourQueries(row.insertion))
               /\ row.rt_template =
                      FirstRight(row.ref_rt_junction, row.ref_rt_junction + 50,
                                 FourQueries(row.insertion))

\* C24, amended: each direction accepts two of the four queries.  The
\* left template is the first slice of the left scan that equals the reverse
\* complement of the insertion's first 5 nt or its last 5 nt; the right
\* template is the first slice of the right scan that equals the insertion's
\* first 5 nt or the reverse complement of its last 5 nt.
C24_TwoQueriesPerDirection ==
    FrequencyWritten =>
        \A i \in InsertionRows :
           LET row == freq_rows[i]
           IN  /\ row.lft_template =
                      FirstLeft(row.ref_lft_junction, row.ref_lft_junction - 50,
                                LeftQueries(row.insertion))
               /\ row.rt_template =
                      FirstRight(row.ref_rt_junction, row.ref_rt_junction + 50,
                                 RightQueries(row.insertion))

\* A 6-nt insertion whose first 5 nt stand left of the left junction, within
\* reach of the left scan, and are not taken as the left template; its right
\* template is found.
C24_Witness ==
    /\ FrequencyWritten
    /\ \E i \in InsertionRows :
          LET row == freq_rows[i]
          IN  /\ row.ins_size = 6
              /\ \E rt \in (row.ref_lft_junction - 49)..row.ref_lft_junction :
                    /\ Inside(target_region, rt - 5, 5)
                    /\ Segment(target_region, rt - 5, 5) = PySlice(row.insertion, 0, 5)
              /\ row.lft_template = <<>>
              /\ row.rt_template # <<>>


\* The 5-nt windows, as <<left edge, right edge>>, that the two loops of
\* templated_insertion_search come to when called with these junctions.
Examined(lft_target_junction, rt_target_junction) ==
    {<<rt - 5, rt>> : rt \in (lft_target_junction - 49)..lft_target_junction}
    \cup {<<lft, lft + 5>> : lft \in rt_target_junction..(rt_target_junction + 49)}

\* C29: templated_insertion_search indexes self.target_region, the region in
\* its native forward frame, so frequency_output calls it with the junctions
\* the classifier located in that frame, for forward and reverse loci alike:
\* the windows it examines are the windows within 50 nt of those junctions,
\* and the templates of the row are the ones found there.
C29_SearchInNativeFrame ==
    FrequencyWritten =>
        \A i \in InsertionRows :
           LET row == freq_rows[i]
               sub == results_freq_dict[i].sub
               native == templated_insertion_search(sub.insertion,
                                                    sub.ref_lft, sub.ref_rt)
           IN  /\ Examined(row.ref_lft_junction, row.ref_rt_junction)
                      = Examined(sub.ref_lft, sub.ref_rt)
               /\ {row.lft_template, row.rt_template} = {native[1], native[2]}

=============================================================================
